---- MODULE Spec2Model ----
(***************************************************************************)
(* MoMoney: transaction import, deduplication and categorization.          *)
(*                                                                         *)
(* The persistent state is the SQLite database behind Repository; the      *)
(* model keeps its tables in the record `db`.  `op` is the position of a   *)
(* handler that commits more than once (every Repository write commits on  *)
(* its own), `last` is what the last completed call returned.              *)
(*                                                                         *)
(* Amounts are integers in cents.  Parsers deliver amounts with two        *)
(* decimals, so amount:.2f (import hash) and int(round(amount*100))        *)
(* (dedup key) are both determined by the cent value.                      *)
(***************************************************************************)
EXTENDS Integers, Sequences, FiniteSets, TLC

VARIABLES db, op, last

vars == <<db, op, last>>

\* Python None, for optional strings
None == "<none>"

\* Python None (SQL NULL) in the numeric column confidence
NoConfidence == -1

\* Python None, where a table row is expected
NoRow == [id |-> 0]

(***************************************************************************)
(* Bounds of the model                                                     *)
(***************************************************************************)
\* rows held by the transactions table in the dedup specification
MaxTxns == 3
\* rows handed to one process_batch call
MaxBatch == 3
\* rows held by the allocations table in the lifecycle specification
MaxAllocs == 2
\* rows held by the receipt_matches table in the lifecycle specification
MaxReceiptMatches == 1

(***************************************************************************)
(* Generic helpers                                                         *)
(***************************************************************************)
Abs(x) == IF x < 0 THEN -x ELSE x

Range(s) == {s[i] : i \in DOMAIN s}

\* the subsequence of s at the positions satisfying Test, in order
RECURSIVE SelectIdx(_, _, _)
SelectIdx(s, keep, i) ==
    IF i > Len(s) THEN <<>>
    ELSE (IF i \in keep THEN <<s[i]>> ELSE <<>>) \o SelectIdx(s, keep, i + 1)

(***************************************************************************)
(* Descriptions.  TLC cannot take strings apart, so the string functions   *)
(* of the code are tabulated on the descriptions the model uses; every     *)
(* entry is the value the Python function returns on that string.          *)
(***************************************************************************)
Descs ==
    {"AMAZON.COM*ORDER1", "AMAZON.COM*ORDER2", "Amazon", "Costco", "CARD PAYMENT"}

\* upper-case, strip digit runs >= 4, strip #123, strip * and #, collapse blanks
normalize_description(desc) ==
    CASE desc = "AMAZON.COM*ORDER1" -> "AMAZON.COMORDER1"
      [] desc = "AMAZON.COM*ORDER2" -> "AMAZON.COMORDER2"
      [] desc = "Amazon"            -> "AMAZON"
      [] desc = "Costco"            -> "COSTCO"
      [] desc = "CARD PAYMENT"      -> "CARD PAYMENT"
      [] desc = "Transfer : Savings"  -> "TRANSFER : SAVINGS"
      [] desc = "Transfer : Checking" -> "TRANSFER : CHECKING"
      [] OTHER                      -> desc

\* SequenceMatcher(None, a, b).ratio() in ten-thousandths, on normalized text
description_similarity(a, b) ==
    IF a = "" /\ b = "" THEN 10000
    ELSE IF a = "" \/ b = "" THEN 0
    ELSE IF a = b THEN 10000
    ELSE IF {a, b} = {"AMAZON.COMORDER1", "AMAZON.COMORDER2"} THEN 9375
    ELSE IF {a, b} \subseteq {"AMAZON.COMORDER1", "AMAZON.COMORDER2", "AMAZON"}
         THEN 5455
    ELSE IF "AMAZON" \in {a, b} THEN 1667
    ELSE 2727

\* Python `a in b` on the normalized descriptions
IsSubstring(a, b) ==
    \/ a = b
    \/ a = "AMAZON" /\ b \in {"AMAZON.COMORDER1", "AMAZON.COMORDER2"}

\* {w for w in a.split() if len(w) >= 3}: each normalized text is one word
SignificantWords(a) == IF a = "" THEN {} ELSE {a}

_descriptions_related(desc_a, desc_b) ==
    LET a == normalize_description(desc_a)
        b == normalize_description(desc_b)
    IN  IF a = "" \/ b = "" THEN FALSE
        ELSE IF IsSubstring(a, b) \/ IsSubstring(b, a) THEN TRUE
        ELSE SignificantWords(a) \cap SignificantWords(b) # {}

(***************************************************************************)
(* parsers/base.py: keys                                                   *)
(***************************************************************************)
compute_import_hash(account_id, date, amount, raw_desc) ==
    <<"ih", account_id, date, amount, raw_desc>>

compute_dedup_key(account_id, date, amount) ==
    <<"dk", account_id, date, amount>>

\* Python truthiness of an optional string
Truthy(x) == x # None /\ x # ""

(***************************************************************************)
(* database/repository.py: the tables and the queries the engines use.     *)
(* A table is the sequence of its rows in rowid order; fetchone() and      *)
(* fetchall() without ORDER BY deliver rows in that order.                 *)
(***************************************************************************)
EmptyDb ==
    [transactions |-> <<>>, allocations |-> <<>>, transfers |-> <<>>,
     receipt_matches |-> <<>>, imports |-> <<>>, api_usage |-> <<>>]

\* SELECT ... WHERE pred, as the list of matching rows
RECURSIVE SelectRows(_, _)
SelectRows(rows, keep) ==
    IF rows = <<>> THEN <<>>
    ELSE (IF Head(rows).id \in keep THEN <<Head(rows)>> ELSE <<>>)
         \o SelectRows(Tail(rows), keep)

get_import_by_hash(d, file_hash) ==
    LET m == SelectRows(d.imports,
                 {r.id : r \in {x \in Range(d.imports) : x.file_hash = file_hash}})
    IN  IF m = <<>> THEN NoRow ELSE m[1]

get_transaction(d, txn_id) ==
    LET m == SelectRows(d.transactions, {txn_id})
    IN  IF m = <<>> THEN NoRow ELSE m[1]

get_transaction_by_external_id(d, account_id, external_id) ==
    LET m == SelectRows(d.transactions,
                 {r.id : r \in {x \in Range(d.transactions) :
                     x.account_id = account_id /\ x.external_id = external_id}})
    IN  IF m = <<>> THEN NoRow ELSE m[1]

get_transactions_by_import_hash(d, import_hash) ==
    SelectRows(d.transactions,
        {r.id : r \in {x \in Range(d.transactions) : x.import_hash = import_hash}})

get_transactions_by_dedup_key(d, dedup_key) ==
    SelectRows(d.transactions,
        {r.id : r \in {x \in Range(d.transactions) : x.dedup_key = dedup_key}})

get_transactions_by_account_and_date(d, account_id, date) ==
    SelectRows(d.transactions,
        {r.id : r \in {x \in Range(d.transactions) :
            x.account_id = account_id /\ x.date = date}})

\* one BEGIN ... COMMIT around all inserts
insert_transactions_batch(d, txns) ==
    [d EXCEPT !.transactions = @ \o txns]

(***************************************************************************)
(* database/dedup.py: DedupEngine                                          *)
(***************************************************************************)
FUZZY_THRESHOLD == 8500

\* matched_txn and matched_splits hold the ids of the matched rows
DedupResult(status, tier, matched_txn, matched_splits) ==
    [status |-> status, tier |-> tier, matched_txn |-> matched_txn.id,
     matched_splits |-> [i \in DOMAIN matched_splits |-> matched_splits[i].id]]

ResultNew == DedupResult("new", None, NoRow, <<>>)

\* faulty variant: the file hash is never found
check_file_duplicate_Never(d, file_hash) == FALSE

\* Tier 1
check_file_duplicate(d, file_hash) == get_import_by_hash(d, file_hash) # NoRow

\* faulty variant: the lookup ignores the account
check_external_id_AnyAccount(d, account_id, external_id) ==
    LET m == SelectRows(d.transactions,
                 {r.id : r \in {x \in Range(d.transactions) :
                     x.external_id = external_id}})
    IN  IF ~Truthy(external_id) \/ m = <<>> THEN NoRow ELSE m[1]

\* Tier 2
check_external_id(d, account_id, external_id) ==
    IF ~Truthy(external_id) THEN NoRow
    ELSE get_transaction_by_external_id(d, account_id, external_id)

\* Tier 3
\* faulty variant: the external ids are not compared
check_import_hash_AnyExternalId(d, import_hash, external_id) ==
    LET matches == get_transactions_by_import_hash(d, import_hash)
    IN  IF matches = <<>> THEN NoRow ELSE matches[1]

\* Tier 3
check_import_hash(d, import_hash, external_id) ==
    LET matches == get_transactions_by_import_hash(d, import_hash)
        ok == SelectRows(matches,
                  {m.id : m \in {x \in Range(matches) :
                      x.external_id = None \/ x.external_id = external_id}})
    IN  IF matches = <<>> THEN NoRow
        ELSE IF Truthy(external_id)
             THEN (IF ok = <<>> THEN NoRow ELSE ok[1])
             ELSE matches[1]

\* the rows of the opposite ingestion source
OppositeSource(rows, has_external_id) ==
    SelectRows(rows,
        {c.id : c \in {x \in Range(rows) :
            \/ has_external_id /\ x.external_id = None
            \/ ~has_external_id /\ x.external_id # None}})

\* Tier 3.5
check_cross_format_duplicate(d, dedup_key, has_external_id) ==
    OppositeSource(get_transactions_by_dedup_key(d, dedup_key), has_external_id)

\* sum(amounts[i] for i in combo)
RECURSIVE SumAt(_, _)
SumAt(amounts, combo) ==
    IF combo = {} THEN 0
    ELSE LET i == CHOOSE x \in combo : TRUE
         IN  amounts[i] + SumAt(amounts, combo \ {i})

\* index sets in the order itertools.combinations yields them within one size:
\* lexicographic on the sorted index tuples
RECURSIVE CombLess(_, _)
CombLess(A, B) ==
    IF A = {} \/ B = {} THEN FALSE
    ELSE LET a == CHOOSE x \in A : \A y \in A : x <= y
             b == CHOOSE x \in B : \A y \in B : x <= y
         IN  IF a # b THEN a < b ELSE CombLess(A \ {a}, B \ {b})

\* tolerance 0.01 in cents
SUBSET_TOLERANCE == 1

\* abs(total - target) <= tolerance on the doubles of the dollar amounts.
\* Equal sums pass and sums two cents or more apart do not; a cent apart
\* the rounding of the sum decides: abs((-60.0 + -40.01) - -100.0) is
\* 0.009999999999990905 and passes, abs((-20.0 + -20.01) - -40.0) is
\* 0.010000000000005116 and does not.  The summands that pass are
\* tabulated.
WithinTolerance(amounts, c, target) ==
    LET diff == Abs(SumAt(amounts, c) - target)
    IN  IF diff # SUBSET_TOLERANCE THEN diff < SUBSET_TOLERANCE
        ELSE <<{amounts[i] : i \in c}, target>> \in
                 {<<{-6000, -4001}, -10000>>, <<{-6000, -3999}, -10000>>,
                  <<{-5000, -5001}, -10000>>}

\* first subset of size >= 2 (smallest size first) that sums to the target;
\* the empty set stands for None
_find_subset_sum(amounts, target) ==
    LET n == Len(amounts)
        hits == {c \in SUBSET (1..n) :
                    /\ Cardinality(c) >= 2
                    /\ WithinTolerance(amounts, c, target)}
    IN  IF n < 2 \/ n > 20 \/ hits = {} THEN {}
        ELSE CHOOSE c \in hits :
                 \A o \in hits \ {c} :
                     \/ Cardinality(c) < Cardinality(o)
                     \/ Cardinality(c) = Cardinality(o) /\ CombLess(c, o)

\* fault-seeded variant: the descriptions of the candidate rows are not
\* compared
check_split_sum_duplicate_AnyDescription(d, account_id, date, amount, raw_description, has_external_id) ==
    LET candidates == get_transactions_by_account_and_date(d, account_id, date)
        opposite == OppositeSource(candidates, has_external_id)
        amounts == [i \in 1..Len(opposite) |-> opposite[i].amount]
        indices == _find_subset_sum(amounts, amount)
    IN  IF candidates = <<>> THEN <<>>
        ELSE IF Len(opposite) < 2 THEN <<>>
        ELSE IF indices # {} THEN SelectIdx(opposite, indices, 1)
        ELSE <<>>

\* Tier 3.6; the empty list stands for None
check_split_sum_duplicate(d, account_id, date, amount, raw_description, has_external_id) ==
    LET candidates == get_transactions_by_account_and_date(d, account_id, date)
        opposite == OppositeSource(candidates, has_external_id)
        related == SelectRows(opposite,
                       {c.id : c \in {x \in Range(opposite) :
                           _descriptions_related(raw_description,
                                                 x.raw_description)}})
        amounts == [i \in 1..Len(related) |-> related[i].amount]
        indices == _find_subset_sum(amounts, amount)
    IN  IF candidates = <<>> THEN <<>>
        ELSE IF Len(opposite) < 2 THEN <<>>
        ELSE IF Len(related) < 2 THEN <<>>
        ELSE IF indices # {} THEN SelectIdx(related, indices, 1)
        ELSE <<>>

\* best candidate of the fuzzy tier: the first one with the highest score
RECURSIVE FuzzyBest(_, _, _, _)
FuzzyBest(candidates, norm_desc, best_match, best_score) ==
    IF candidates = <<>> THEN [match |-> best_match, score |-> best_score]
    ELSE LET c == Head(candidates)
             existing_desc == IF c.normalized_description \notin {None, ""}
                              THEN c.normalized_description
                              ELSE normalize_description(c.raw_description)
             score == description_similarity(norm_desc, existing_desc)
         IN  IF score > best_score
             THEN FuzzyBest(Tail(candidates), norm_desc, c, score)
             ELSE FuzzyBest(Tail(candidates), norm_desc, best_match, best_score)

\* Tier 4
check_fuzzy_duplicate(d, dedup_key, raw_description) ==
    LET candidates == get_transactions_by_dedup_key(d, dedup_key)
        best == FuzzyBest(candidates, normalize_description(raw_description),
                          NoRow, 0)
    IN  IF candidates = <<>> THEN ResultNew
        ELSE IF best.score >= FUZZY_THRESHOLD
             THEN DedupResult("flagged", "fuzzy", best.match, <<>>)
             ELSE ResultNew

\* tiers 2 to 4 on one raw row
deduplicate(d, raw) ==
    LET by_ext == check_external_id(d, raw.account_id, raw.external_id)
        import_hash == compute_import_hash(raw.account_id, raw.date,
                                           raw.amount, raw.raw_description)
        by_hash == check_import_hash(d, import_hash, raw.external_id)
        dedup_key == compute_dedup_key(raw.account_id, raw.date, raw.amount)
        cross_matches == check_cross_format_duplicate(d, dedup_key,
                                                      Truthy(raw.external_id))
        split_matches == check_split_sum_duplicate(d, raw.account_id, raw.date,
                             raw.amount, raw.raw_description,
                             Truthy(raw.external_id))
        fuzzy_result == check_fuzzy_duplicate(d, dedup_key, raw.raw_description)
    IN  IF by_ext # NoRow
        THEN DedupResult("duplicate", "external_id", by_ext, <<>>)
        ELSE IF by_hash # NoRow
        THEN DedupResult("duplicate", "import_hash", by_hash, <<>>)
        ELSE IF cross_matches # <<>>
        THEN DedupResult("duplicate", "cross_format", cross_matches[1], <<>>)
        ELSE IF split_matches # <<>>
        THEN DedupResult("duplicate", "split_sum", split_matches[1],
                         split_matches)
        ELSE IF ~Truthy(raw.external_id) /\ fuzzy_result.status = "flagged"
        THEN fuzzy_result
        ELSE ResultNew

\* dict.get(k, 0) and dict[k] = v on a dict kept as a function
DictGet(f, k) == IF k \in DOMAIN f THEN f[k] ELSE 0

DictPut(f, k, v) == [x \in DOMAIN f \cup {k} |-> IF x = k THEN v ELSE f[x]]

\* models.Transaction as process_batch builds it; the id is given on insert
Transaction(raw, import_id, source, status) ==
    [id |-> 0,
     account_id |-> raw.account_id,
     date |-> raw.date,
     amount |-> raw.amount,
     raw_description |-> raw.raw_description,
     normalized_description |-> normalize_description(raw.raw_description),
     external_id |-> raw.external_id,
     import_id |-> import_id,
     import_hash |-> compute_import_hash(raw.account_id, raw.date, raw.amount,
                                         raw.raw_description),
     dedup_key |-> compute_dedup_key(raw.account_id, raw.date, raw.amount),
     source |-> source,
     status |-> status,
     confidence |-> NoConfidence,
     categorization_method |-> None,
     receipt_lookup_status |-> None]

\* the local variables of process_batch before the loop.  The list
\* `duplicates` is only ever counted, so the model keeps its length.
\* `n_rows`, `reached`, `rejected`, `split_hits` and `decision` observe the
\* loop: the rows seen so far; per (dedup key, has external id) the rows that
\* got as far as the cross-format tier and those rejected there; per existing
\* transaction id the rejected rows whose matched splits contain it; and what
\* the loop did with the latest row.
BatchStart ==
    [new_txns |-> <<>>, duplicates |-> 0, flagged |-> <<>>,
     seen_external_ids |-> {}, seen_import_hashes |-> {},
     cross_format_used |-> <<>>, split_sum_consumed |-> {},
     n_rows |-> 0, reached |-> <<>>, rejected |-> <<>>, split_hits |-> <<>>,
     decision |-> [status |-> "none"]]

Decision(raw, status, tier, matched_splits, at_cross) ==
    [raw |-> raw, status |-> status, tier |-> tier,
     matched_splits |-> matched_splits, at_cross |-> at_cross]

BatchDuplicate(st, raw, result, at_cross) ==
    [st EXCEPT !.duplicates = @ + 1,
               !.decision = Decision(raw, "duplicate", result.tier,
                                     Range(result.matched_splits), at_cross)]

\* faulty variant: the identifiers of a queued row are not recorded
BatchKeep_NotSeen(st, raw, result, import_id, source) ==
    LET status == IF result.status = "flagged" THEN "flagged" ELSE "pending"
        txn == Transaction(raw, import_id, source, status)
    IN  [st EXCEPT
            !.flagged = IF status = "flagged" THEN Append(@, txn) ELSE @,
            !.new_txns = IF status = "flagged" THEN @ ELSE Append(@, txn),
            !.decision = Decision(raw,
                             IF status = "flagged" THEN "flagged" ELSE "new",
                             result.tier, {}, TRUE)]

\* lines 362-399: a row that is not a duplicate is queued for insertion
BatchKeep(st, raw, result, import_id, source) ==
    LET status == IF result.status = "flagged" THEN "flagged" ELSE "pending"
        txn == Transaction(raw, import_id, source, status)
        seen == IF Truthy(raw.external_id)
                THEN st.seen_external_ids
                         \cup {<<raw.account_id, raw.external_id>>}
                ELSE st.seen_external_ids
    IN  [st EXCEPT
            !.seen_external_ids = seen,
            !.seen_import_hashes = @ \cup {txn.import_hash},
            !.flagged = IF status = "flagged" THEN Append(@, txn) ELSE @,
            !.new_txns = IF status = "flagged" THEN @ ELSE Append(@, txn),
            !.decision = Decision(raw,
                             IF status = "flagged" THEN "flagged" ELSE "new",
                             result.tier, {}, TRUE)]

\* faulty variant: one slot too many
CrossFormatSlotFree_OffByOne(used, cross_matches) == used <= Len(cross_matches)

\* line 338: a cross-format match is still unused for this dedup key
CrossFormatSlotFree(used, cross_matches) == used < Len(cross_matches)

\* faulty variant: consumed splits are not looked at
SplitsUnconsumed_Ignored(matched_ids, split_sum_consumed) == TRUE

\* line 354: none of the matched splits was consumed by an earlier row
SplitsUnconsumed(matched_ids, split_sum_consumed) ==
    matched_ids \cap split_sum_consumed = {}

\* the observer split_hits after a row was rejected against matched_ids
CountHits(hits, matched_ids) ==
    [x \in DOMAIN hits \cup matched_ids |->
        DictGet(hits, x) + (IF x \in matched_ids THEN 1 ELSE 0)]

\* one iteration of the loop of process_batch
BatchRow(d, st0, raw, import_id, source) ==
    LET import_hash_early == compute_import_hash(raw.account_id, raw.date,
                                 raw.amount, raw.raw_description)
        result == deduplicate(d, raw)
        dk == compute_dedup_key(raw.account_id, raw.date, raw.amount)
        cross_matches == check_cross_format_duplicate(d, dk,
                                                      Truthy(raw.external_id))
        used == DictGet(st0.cross_format_used, dk)
        matched_ids == Range(result.matched_splits)
        rk == <<dk, Truthy(raw.external_id)>>
        st == [st0 EXCEPT !.n_rows = @ + 1]
        stx == [st EXCEPT !.reached = DictPut(@, rk, DictGet(@, rk) + 1)]
    IN  IF /\ Truthy(raw.external_id)
           /\ <<raw.account_id, raw.external_id>> \in st.seen_external_ids
        THEN BatchDuplicate(st, raw,
                 DedupResult("duplicate", "external_id", NoRow, <<>>), FALSE)
        ELSE IF /\ import_hash_early \in st.seen_import_hashes
                /\ ~Truthy(raw.external_id)
        THEN BatchDuplicate(st, raw,
                 DedupResult("duplicate", "import_hash", NoRow, <<>>), FALSE)
        ELSE IF result.status = "duplicate" /\ result.tier = "cross_format"
        THEN IF CrossFormatSlotFree(used, cross_matches)
             THEN BatchDuplicate(
                      [stx EXCEPT !.cross_format_used = DictPut(@, dk, used + 1),
                                  !.rejected = DictPut(@, rk, DictGet(@, rk) + 1)],
                      raw, result, TRUE)
             ELSE BatchKeep(stx, raw, ResultNew, import_id, source)
        ELSE IF result.status = "duplicate" /\ result.tier = "split_sum"
        THEN IF SplitsUnconsumed(matched_ids, st.split_sum_consumed)
             THEN BatchDuplicate(
                      [stx EXCEPT !.split_sum_consumed = @ \cup matched_ids,
                                  !.split_hits = CountHits(@, matched_ids)],
                      raw, result, TRUE)
             ELSE BatchKeep(stx, raw, ResultNew, import_id, source)
        ELSE IF result.status = "duplicate"
        THEN BatchDuplicate(st, raw, result, FALSE)
        ELSE BatchKeep(stx, raw, result, import_id, source)

RECURSIVE BatchLoop(_, _, _, _, _)
BatchLoop(d, st, raw_txns, import_id, source) ==
    IF raw_txns = <<>> THEN st
    ELSE BatchLoop(d, BatchRow(d, st, Head(raw_txns), import_id, source),
                   Tail(raw_txns), import_id, source)

\* uuid4 ids: fresh, here the position in the table
WithIds(d, txns) ==
    [i \in DOMAIN txns |-> [txns[i] EXCEPT !.id = Len(d.transactions) + i]]

\* faulty variant: the flagged rows are counted but not inserted
BatchFinish_DropFlagged(d, st) ==
    LET all_insert == WithIds(d, st.new_txns)
    IN  [db |-> IF all_insert # <<>>
                THEN insert_transactions_batch(d, all_insert)
                ELSE d,
         new_count |-> Len(st.new_txns),
         duplicate_count |-> st.duplicates,
         flagged_count |-> Len(st.flagged),
         transactions |-> WithIds(d, st.new_txns \o st.flagged),
         n_rows |-> st.n_rows]

\* lines 401-411: the single batch insert and the BatchResult
BatchFinish(d, st) ==
    LET all_insert == WithIds(d, st.new_txns \o st.flagged)
    IN  [db |-> IF all_insert # <<>>
                THEN insert_transactions_batch(d, all_insert)
                ELSE d,
         new_count |-> Len(st.new_txns),
         duplicate_count |-> st.duplicates,
         flagged_count |-> Len(st.flagged),
         transactions |-> all_insert,
         n_rows |-> st.n_rows]

\* process_batch: the database after the call and the BatchResult
process_batch(d, raw_txns, import_id, source) ==
    BatchFinish(d, BatchLoop(d, BatchStart, raw_txns, import_id, source))

(***************************************************************************)
(* Specification of the dedup engine: process_batch and deduplicate called *)
(* against a database that earlier batches filled.                         *)
(***************************************************************************)
RawTransaction(account_id, date, amount, raw_description, external_id) ==
    [account_id |-> account_id, date |-> date, amount |-> amount,
     raw_description |-> raw_description, external_id |-> external_id]

\* the rows parsers hand over: bank rows carry an external id (FITID or
\* timestamp) when the file has one, budget-app rows carry none
RawRows ==
    {RawTransaction("a1", 1, -10000, "AMAZON.COM*ORDER1", e) :
         e \in {None, "e1", "e2"}}
    \cup {RawTransaction("a1", 1, -10000, "AMAZON.COM*ORDER2", None)}
    \cup {RawTransaction("a1", 1, a, "Amazon", None) : a \in {-10000, -6000, -4000}}
    \cup {RawTransaction("a1", 1, -4000, "Costco", None),
          RawTransaction("a2", 1, -10000, "AMAZON.COM*ORDER1", "e1")}

Idle == [kind |-> "idle"]

\* the import row the caller of process_batch has recorded
Import(id, file_hash) ==
    [id |-> id, file_hash |-> file_hash, status |-> "pending",
     error_message |-> None, record_count |-> None]

InitBatch ==
    /\ db = [EmptyDb EXCEPT !.imports = <<Import(1, "h0")>>]
    /\ op = Idle
    /\ last = [kind |-> "none"]

\* process_batch is entered
BeginBatch ==
    /\ op = Idle
    /\ op' = [kind |-> "batch", st |-> BatchStart]
    /\ last' = [kind |-> "none"]
    /\ UNCHANGED db

\* the loop takes the next row the parser yielded
ProcessRow ==
    \E raw \in RawRows :
        LET st == BatchRow(db, op.st, raw, 1, "bank")
        IN  /\ op.kind = "batch"
            /\ op.st.n_rows < MaxBatch
            /\ Len(db.transactions) + Len(st.new_txns) + Len(st.flagged)
                   <= MaxTxns
            /\ op' = [op EXCEPT !.st = st]
            /\ UNCHANGED <<db, last>>

\* the loop is over: batch insert, BatchResult returned
EndBatch ==
    LET r == BatchFinish(db, op.st)
    IN  /\ op.kind = "batch"
        /\ db' = r.db
        /\ op' = Idle
        /\ last' = [kind |-> "batch",
                    new_count |-> r.new_count,
                    duplicate_count |-> r.duplicate_count,
                    flagged_count |-> r.flagged_count,
                    transactions |-> r.transactions,
                    n_rows |-> r.n_rows]

DeduplicateCall ==
    \E raw \in RawRows :
        /\ op = Idle
        /\ last' = [kind |-> "dedup", raw |-> raw, result |-> deduplicate(db, raw)]
        /\ UNCHANGED <<db, op>>

NextBatch == BeginBatch \/ ProcessRow \/ EndBatch \/ DeduplicateCall

SpecBatch == InitBatch /\ [][NextBatch]_vars

\* the latest row of the running batch, where it got as far as the
\* cross-format tier
AtCross == op.kind = "batch" /\ op.st.decision.status # "none"
           /\ op.st.decision.at_cross

RowKey(raw) == compute_dedup_key(raw.account_id, raw.date, raw.amount)

\* N of the latest row: the existing rows of the opposite source with its key
OppositeCount(raw) ==
    Len(check_cross_format_duplicate(db, RowKey(raw), Truthy(raw.external_id)))

Min(a, b) == IF a < b THEN a ELSE b

\* C3 as stated: the rows with one key that reach the cross-format tier are
\* rejected there while their rank is at most N = the number of existing
\* opposite-source rows with the key, and every later one is inserted as new.
C3_AsStated ==
    AtCross =>
        LET dec == op.st.decision
            rk == <<RowKey(dec.raw), Truthy(dec.raw.external_id)>>
            rank == DictGet(op.st.reached, rk)
        IN  IF rank <= OppositeCount(dec.raw)
            THEN dec.status = "duplicate" /\ dec.tier = "cross_format"
            ELSE dec.status = "new"

\* C3 (amended): a row that reaches the cross-format tier and finds N >= 1
\* existing opposite-source rows with its dedup key is rejected as a
\* cross-format duplicate when fewer than N earlier rows of the batch with
\* that key were rejected at that tier, and is otherwise inserted as new; so
\* when the rows of the batch with that key all come from one source, exactly
\* the first min(N, M) of them are rejected.
C3_CrossFormatCountLimited ==
    AtCross /\ OppositeCount(op.st.decision.raw) >= 1 =>
        LET dec == op.st.decision
            N == OppositeCount(dec.raw)
            dk == RowKey(dec.raw)
            has == Truthy(dec.raw.external_id)
            done == DictGet(op.st.rejected, <<dk, TRUE>>)
                    + DictGet(op.st.rejected, <<dk, FALSE>>)
        IN  /\ \/ dec.status = "duplicate" /\ dec.tier = "cross_format"
                  /\ done - 1 < N
               \/ dec.status = "new" /\ done >= N
            /\ DictGet(op.st.reached, <<dk, ~has>>) = 0 =>
                   DictGet(op.st.rejected, <<dk, has>>)
                       = Min(N, DictGet(op.st.reached, <<dk, has>>))

\* two existing rows of the opposite source, three incoming rows with the
\* key: the third one is inserted as new
C3_Witness ==
    /\ AtCross
    /\ OppositeCount(op.st.decision.raw) = 2
    /\ DictGet(op.st.reached, <<RowKey(op.st.decision.raw),
                                Truthy(op.st.decision.raw.external_id)>>) = 3
    /\ op.st.decision.status = "new"
    /\ op.st.duplicates = 2

\* C4: no existing transaction is in the matched split set of two incoming
\* rows rejected at the split-sum tier of one batch, and a row whose matched
\* split set overlaps a consumed one is inserted as new.
C4_SplitsConsumedOnce ==
    op.kind = "batch" =>
        /\ \A x \in DOMAIN op.st.split_hits : op.st.split_hits[x] <= 1
        /\ AtCross /\ deduplicate(db, op.st.decision.raw).tier = "split_sum" =>
               LET dec == op.st.decision
                   matched == Range(deduplicate(db, dec.raw).matched_splits)
               IN  \/ /\ dec.status = "duplicate" /\ dec.tier = "split_sum"
                      /\ dec.matched_splits = matched
                      /\ \A x \in matched : DictGet(op.st.split_hits, x) = 1
                   \/ /\ dec.status = "new"
                      /\ \E x \in matched : DictGet(op.st.split_hits, x) = 1

\* a second row matches the splits an earlier row of the batch consumed
C4_Witness ==
    /\ AtCross
    /\ deduplicate(db, op.st.decision.raw).tier = "split_sum"
    /\ op.st.decision.status = "new"
    /\ op.st.duplicates = 1
    /\ Cardinality(op.st.split_sum_consumed) = 2

\* C6: every row of a batch raises exactly one of the three counts by one and
\* leaves the database alone; at the end the counts sum to the number of rows,
\* the transactions table grows by exactly the rows counted new or flagged and
\* no other row is added or changed.
C6_CountsAndInserts ==
    [][/\ op.kind = "batch" /\ op'.kind = "batch" =>
              /\ db' = db
              /\ op'.st.n_rows = op.st.n_rows + 1
              /\ (Len(op'.st.new_txns) - Len(op.st.new_txns))
                     + (op'.st.duplicates - op.st.duplicates)
                     + (Len(op'.st.flagged) - Len(op.st.flagged)) = 1
              /\ Len(op'.st.new_txns) >= Len(op.st.new_txns)
              /\ op'.st.duplicates >= op.st.duplicates
              /\ Len(op'.st.flagged) >= Len(op.st.flagged)
       /\ op.kind = "batch" /\ op'.kind = "idle" =>
              /\ last'.new_count + last'.duplicate_count + last'.flagged_count
                     = last'.n_rows
              /\ last'.new_count = Len(op.st.new_txns)
              /\ last'.flagged_count = Len(op.st.flagged)
              /\ db'.transactions
                     = db.transactions \o WithIds(db, op.st.new_txns \o op.st.flagged)
              /\ Len(db'.transactions) = Len(db.transactions)
                     + last'.new_count + last'.flagged_count
              /\ db'.allocations = db.allocations
              /\ db'.transfers = db.transfers
              /\ db'.receipt_matches = db.receipt_matches
              /\ db'.imports = db.imports]_vars

\* a batch with a new, a duplicate and a flagged row has returned
C6_Witness ==
    /\ last.kind = "batch"
    /\ last.new_count = 1 /\ last.duplicate_count = 1 /\ last.flagged_count = 1
    /\ Len(db.transactions) = 3

\* C7: deduplicate answers with the first tier that matches, in the order
\* external id, import hash, cross-format, split-sum, fuzzy; a row whose
\* (account, external id) is that of an existing row is a duplicate at tier
\* external_id, and a row with an external id is never flagged.
C7_TierOrder ==
    last.kind = "dedup" =>
        LET raw == last.raw
            r == last.result
            ext == \E x \in Range(db.transactions) :
                       /\ x.account_id = raw.account_id
                       /\ x.external_id = raw.external_id
                       /\ Truthy(raw.external_id)
            hash == check_import_hash(db,
                        compute_import_hash(raw.account_id, raw.date,
                            raw.amount, raw.raw_description),
                        raw.external_id) # NoRow
            cross == OppositeCount(raw) > 0
            split == check_split_sum_duplicate(db, raw.account_id, raw.date,
                         raw.amount, raw.raw_description,
                         Truthy(raw.external_id)) # <<>>
            fuzzy == check_fuzzy_duplicate(db, RowKey(raw),
                         raw.raw_description).status = "flagged"
            tier == IF ext THEN "external_id"
                    ELSE IF hash THEN "import_hash"
                    ELSE IF cross THEN "cross_format"
                    ELSE IF split THEN "split_sum"
                    ELSE IF fuzzy /\ ~Truthy(raw.external_id) THEN "fuzzy"
                    ELSE None
        IN  /\ r.tier = tier
            /\ r.status = IF tier = None THEN "new"
                          ELSE IF tier = "fuzzy" THEN "flagged" ELSE "duplicate"
            /\ ext => r.status = "duplicate" /\ r.tier = "external_id"
            /\ Truthy(raw.external_id) => r.status # "flagged"

\* an external-id match wins over the import-hash match of the same row
C7_Witness ==
    /\ last.kind = "dedup"
    /\ last.result.tier = "external_id"
    /\ check_import_hash(db,
           compute_import_hash(last.raw.account_id, last.raw.date,
               last.raw.amount, last.raw.raw_description), None) # NoRow
    /\ Len(db.transactions) = 1

(***************************************************************************)
(* categorize/pipeline.py: the category filter and categorize_transaction. *)
(* The matchers the pipeline consults (transfer_detect, merchant_match,    *)
(* historical, amount_rules, receipt_lookup.resolve, claude_ai) are its    *)
(* inputs here: `env.found[s]` is what the matcher of step s returns for   *)
(* the transaction when it is asked, absent when it returns None.          *)
(***************************************************************************)
MaxMatches == 2

Steps ==
    <<"transfer", "transfer_inferred", "interest_detection", "merchant_auto",
      "historical_pattern", "amount_rule", "account_rule", "merchant_high",
      "gmail_receipt", "claude_ai">>

\* biz-saas has a permitted prefix, earnings is a permitted id, coffee-d is
\* neither
Categories == {"biz-saas", "earnings", "coffee-d"}

TransferTypes == {"cc-payment"}

\* category_filter values of an account: none, one with a default category,
\* one without
Filters ==
    {[declared |-> FALSE],
     [declared |-> TRUE, compatible_prefixes |-> {"biz-"},
      compatible_ids |-> {"earnings"}, default_category |-> "biz-other"],
     [declared |-> TRUE, compatible_prefixes |-> {"biz-"},
      compatible_ids |-> {"earnings"}, default_category |-> None]}

\* str.startswith on the category ids of the model
StartsWith(category_id, prefix) ==
    prefix = "biz-" /\ category_id \in {"biz-saas", "biz-other"}

_is_compatible(category_id, cat_filter) ==
    \/ \E pre \in cat_filter.compatible_prefixes : StartsWith(category_id, pre)
    \/ category_id \in cat_filter.compatible_ids

\* faulty variant: the filter is not applied
_apply_filter_Skipped(category_id, cat_filter) == category_id

_apply_filter(category_id, cat_filter) ==
    IF ~cat_filter.declared THEN category_id
    ELSE IF _is_compatible(category_id, cat_filter) THEN category_id
    ELSE IF cat_filter.default_category # None
         THEN cat_filter.default_category
         ELSE category_id

\* no TransferMatch, no ReceiptResult
NoTransfer == [transfer_type |-> None, from_account |-> None, to_account |-> None]

NoReceipt == [matched |-> FALSE, items |-> <<>>]

\* `calls` is not a field of the dataclass: it lists the steps whose matcher
\* was asked on the way to the result
CategorizeResult(category_id, confidence, method, transfer, receipt_result, calls) ==
    [category_id |-> category_id, confidence |-> confidence,
     method |-> method,
     is_transfer |-> transfer # NoTransfer,
     transfer_type |-> transfer.transfer_type,
     from_account |-> transfer.from_account,
     to_account |-> transfer.to_account,
     receipt_result |-> receipt_result,
     calls |-> calls]

\* what the matcher of step s returned
Found(env, s) == s \in DOMAIN env.found

\* lines 110-136: the category of a detected transfer
TransferCategory(env, transfer_type) ==
    IF transfer_type \in DOMAIN env.transfer_cats
    THEN env.transfer_cats[transfer_type]
    ELSE IF "internal-transfer" \in DOMAIN env.transfer_cats
         THEN env.transfer_cats["internal-transfer"]
         ELSE IF Truthy(env.fallback) THEN env.fallback ELSE "uncategorized"

\* lines 199-214: the category of a matched receipt
ReceiptCategory(env, receipt_result) ==
    IF receipt_result.items # <<>>
       /\ Truthy(receipt_result.items[1].category_id)
    THEN receipt_result.items[1].category_id
    ELSE env.fallback

\* the guard in front of a step: historical needs the repository and a
\* normalized description (line 158), the receipt step a ReceiptLookup
\* (line 200), the AI step claude_fn and the repository (line 217)
StepAsked(env, s) ==
    CASE s = "historical_pattern" -> env.has_repo /\ env.has_normalized_description
      [] s = "gmail_receipt" -> env.has_receipt_lookup
      [] s = "claude_ai" -> env.has_claude_fn /\ env.has_repo
      [] OTHER -> TRUE

\* the confidence a step reports, in percent: 1.0 is written in the pipeline
\* for transfers and interest, the other values stand for what the matcher
\* reports
StepConfidence(s) ==
    CASE s \in {"transfer", "transfer_inferred", "interest_detection",
                "merchant_auto"} -> 100
      [] s = "historical_pattern" -> 95
      [] s = "claude_ai" -> 50
      [] OTHER -> 85

\* the CategorizeResult a step returns for what its matcher found
StepResult(env, s, calls) ==
    CASE s \in {"transfer", "transfer_inferred"} ->
             CategorizeResult(TransferCategory(env, env.found[s].transfer_type),
                              StepConfidence(s), s, env.found[s], NoReceipt,
                              calls)
      [] s = "interest_detection" ->
             CategorizeResult(env.found[s].category_id, StepConfidence(s), s,
                              NoTransfer, NoReceipt, calls)
      [] s = "gmail_receipt" ->
             CategorizeResult(
                 _apply_filter(ReceiptCategory(env, env.found[s]), env.cat_filter),
                 StepConfidence(s), s, NoTransfer, env.found[s], calls)
      [] OTHER ->
             CategorizeResult(
                 _apply_filter(env.found[s].category_id, env.cat_filter),
                 StepConfidence(s), s, NoTransfer, NoReceipt, calls)

\* the steps in the order the function body runs them; `calls` collects the
\* steps whose matcher was asked
RECURSIVE Pipeline(_, _, _)
Pipeline(env, steps, calls) ==
    IF steps = <<>>
    THEN CategorizeResult(env.fallback, 0, "manual_review", NoTransfer,
                          NoReceipt, calls)
    ELSE LET s == Head(steps)
         IN  IF ~StepAsked(env, s) THEN Pipeline(env, Tail(steps), calls)
             ELSE IF Found(env, s) THEN StepResult(env, s, calls \cup {s})
             ELSE Pipeline(env, Tail(steps), calls \cup {s})

\* faulty variant: the high-confidence merchants are asked before the
\* amount and account rules
categorize_transaction_HighEarly(env) ==
    Pipeline(env,
        <<"transfer", "transfer_inferred", "interest_detection", "merchant_auto",
          "historical_pattern", "merchant_high", "amount_rule", "account_rule",
          "gmail_receipt", "claude_ai">>, {})

categorize_transaction(env) == Pipeline(env, Steps, {})

(***************************************************************************)
(* Specification of categorize_transaction: one call on every combination  *)
(* of matcher answers, account filter and collaborators.                   *)
(***************************************************************************)
\* a line item of a parsed receipt
ReceiptItem(category_id, amount) ==
    [category_id |-> category_id, amount |-> amount]

\* what the matcher of a step can return
Outcomes(s) ==
    CASE s \in {"transfer", "transfer_inferred"} ->
             {[transfer_type |-> t, from_account |-> "a1", to_account |-> "a2"] :
                  t \in TransferTypes}
      [] s = "gmail_receipt" ->
             {[matched |-> TRUE, items |-> i] :
                  i \in {<<ReceiptItem("coffee-d", 10000)>>,
                         <<ReceiptItem(None, 10000)>>, <<>>}}
      [] OTHER -> {[category_id |-> c] : c \in Categories}

AllOutcomes == UNION {Outcomes(s) : s \in Range(Steps)}

Founds ==
    UNION {{f \in [S -> AllOutcomes] : \A s \in S : f[s] \in Outcomes(s)} :
               S \in {T \in SUBSET Range(Steps) : Cardinality(T) <= MaxMatches}}

Envs ==
    [found : Founds, cat_filter : Filters,
     transfer_cats : {<<>>, [t \in TransferTypes |-> "xfer-internal"]},
     fallback : {"uncategorized"},
     has_repo : BOOLEAN, has_normalized_description : BOOLEAN,
     has_receipt_lookup : BOOLEAN, has_claude_fn : BOOLEAN]

InitCategorize ==
    /\ db = EmptyDb
    /\ op \in {[kind |-> "categorize", env |-> env] : env \in Envs}
    /\ last = [kind |-> "none"]

CategorizeCall ==
    /\ op.kind = "categorize"
    /\ last.kind = "none"
    /\ last' = [kind |-> "result", result |-> categorize_transaction(op.env)]
    /\ UNCHANGED <<db, op>>

NextCategorize == CategorizeCall

SpecCategorize == InitCategorize /\ [][NextCategorize]_vars

\* the steps that produce a match for the input, by position
Hits(env) ==
    {i \in DOMAIN Steps : StepAsked(env, Steps[i]) /\ Found(env, Steps[i])}

\* C8: categorize_transaction returns the result of the first step, in the
\* order of Steps, that produces a match, asks no matcher of a later step
\* (so neither the receipt lookup nor the AI once an earlier step matched),
\* and returns manual review with confidence 0 when no step matches.
C8_FirstMatchWins ==
    last.kind = "result" =>
        LET env == op.env
            r == last.result
            first == CHOOSE i \in Hits(env) : \A j \in Hits(env) : i <= j
        IN  IF Hits(env) = {}
            THEN /\ r.method = "manual_review"
                 /\ r.confidence = 0
                 /\ r.category_id = env.fallback
            ELSE /\ r.method = Steps[first]
                 /\ r.confidence = StepConfidence(Steps[first])
                 /\ r.calls \subseteq {Steps[j] : j \in 1..first}
                 /\ \A j \in DOMAIN Steps : j > first => Steps[j] \notin r.calls

\* the amount rule and the AI both have an answer: the amount rule wins and
\* neither the receipt lookup nor the AI is asked
C8_Witness ==
    /\ last.kind = "result"
    /\ Found(op.env, "amount_rule") /\ Found(op.env, "claude_ai")
    /\ op.env.has_claude_fn /\ op.env.has_repo /\ op.env.has_receipt_lookup
    /\ last.result.method = "amount_rule"
    /\ "gmail_receipt" \notin last.result.calls
    /\ "claude_ai" \notin last.result.calls

FilteredSteps ==
    {"merchant_auto", "historical_pattern", "amount_rule", "account_rule",
     "merchant_high", "gmail_receipt", "claude_ai"}

\* C9 as stated: on an account with a category filter every step other than
\* manual review returns a category that is compatible with the filter or is
\* the account's default category.
C9_AsStated ==
    last.kind = "result" /\ op.env.cat_filter.declared
        /\ last.result.method # "manual_review" =>
            \/ _is_compatible(last.result.category_id, op.env.cat_filter)
            \/ last.result.category_id = op.env.cat_filter.default_category

\* C9 (amended): on an account whose category filter names a default
\* category, the merchant, historical, amount-rule, account-rule, receipt and
\* AI steps return a category that is compatible with the filter or is that
\* default; the transfer and interest steps return their category unfiltered,
\* and a filter without a default leaves an incompatible category as it is.
C9_FilteredStepsCompatible ==
    last.kind = "result" /\ op.env.cat_filter.declared =>
        LET env == op.env
            r == last.result
            raw == IF r.method = "gmail_receipt"
                   THEN ReceiptCategory(env, env.found[r.method])
                   ELSE IF r.method \in {"transfer", "transfer_inferred"}
                   THEN TransferCategory(env, env.found[r.method].transfer_type)
                   ELSE IF r.method = "manual_review" THEN env.fallback
                   ELSE env.found[r.method].category_id
        IN  /\ r.method \in FilteredSteps
                   /\ env.cat_filter.default_category # None =>
               /\ \/ _is_compatible(r.category_id, env.cat_filter)
                  \/ r.category_id = env.cat_filter.default_category
               /\ _is_compatible(raw, env.cat_filter) => r.category_id = raw
            /\ r.method \in FilteredSteps
                   /\ env.cat_filter.default_category = None =>
               r.category_id = raw
            /\ r.method \notin FilteredSteps => r.category_id = raw

\* a merchant match on a personal category is replaced by the default
C9_Witness ==
    /\ last.kind = "result"
    /\ op.env.cat_filter.declared
    /\ last.result.method = "merchant_auto"
    /\ op.env.found["merchant_auto"].category_id = "coffee-d"
    /\ last.result.category_id = "biz-other"

(***************************************************************************)
(* database/repository.py: the single-row writes.  Each of them ends with  *)
(* conn.commit(), so each is one durable step.                             *)
(***************************************************************************)
\* an argument left at _SENTINEL: the column is not written
NoMethod == "<sentinel>"

SENTINEL == -2

\* a row of allocations; its rowid is its position in the table
Allocation(transaction_id, category_id, amount, source, confidence) ==
    [transaction_id |-> transaction_id, category_id |-> category_id,
     amount |-> amount, source |-> source, confidence |-> confidence]

Transfer(from_transaction_id, to_transaction_id, transfer_type, match_method) ==
    [id |-> 0, from_transaction_id |-> from_transaction_id,
     to_transaction_id |-> to_transaction_id,
     transfer_type |-> transfer_type, match_method |-> match_method]

\* faulty variant: the insert writes no row
insert_allocation_NoRow(d, alloc) == d

insert_allocation(d, alloc) ==
    [d EXCEPT !.allocations = Append(@, alloc)]

update_transaction_status(d, txn_id, status, confidence, method) ==
    [d EXCEPT !.transactions =
        [i \in DOMAIN @ |->
            IF @[i].id # txn_id THEN @[i]
            ELSE [@[i] EXCEPT
                     !.status = status,
                     !.confidence = IF confidence = SENTINEL THEN @
                                    ELSE confidence,
                     !.categorization_method = IF method = NoMethod THEN @
                                               ELSE method]]]

get_allocations_by_transaction(d, txn_id) ==
    SelectIdx(d.allocations,
              {i \in DOMAIN d.allocations :
                   d.allocations[i].transaction_id = txn_id}, 1)

insert_transfer(d, xfer) ==
    [d EXCEPT !.transfers = Append(@, [xfer EXCEPT !.id = Len(d.transfers) + 1])]

\* the ids that occur in some transfer row
Linked(d) ==
    {d.transfers[i].from_transaction_id : i \in DOMAIN d.transfers}
        \cup {d.transfers[i].to_transaction_id : i \in DOMAIN d.transfers}

\* fetchone() of the rows naming txn_id; NoRow for None
get_transfer_by_transaction(d, txn_id) ==
    LET hits == {i \in DOMAIN d.transfers :
                     \/ d.transfers[i].from_transaction_id = txn_id
                     \/ d.transfers[i].to_transaction_id = txn_id}
    IN  IF hits = {} THEN NoRow
        ELSE d.transfers[CHOOSE i \in hits : \A j \in hits : i <= j]

\* days: int = 5
TRANSFER_WINDOW_DAYS == 5

\* ABS(amount + ?) < 0.01 on the REAL values of the two dollar amounts.
\* Opposite amounts pass and amounts two cents or more apart do not; a cent
\* apart the rounding of the sum decides: ABS(40.01 + -40.0) is
\* 0.00999999999999801 and passes, ABS(100.01 + -100.0) is
\* 0.010000000000005116 and does not.  The test is tabulated for the amounts
\* the model uses.
AmountOpposite(amount, other) ==
    IF Abs(amount + other) # 1 THEN amount + other = 0
    ELSE {Abs(amount), Abs(other)} = {4000, 4001}

\* the candidates ordered by distance in days; rows at the same distance are
\* taken in rowid order
RECURSIVE SortByDistance(_, _, _)
SortByDistance(rows, date, dist) ==
    IF rows = <<>> THEN <<>>
    ELSE SelectIdx(rows, {i \in DOMAIN rows : Abs(rows[i].date - date) = dist}, 1)
         \o SortByDistance(
                SelectIdx(rows,
                    {i \in DOMAIN rows : Abs(rows[i].date - date) # dist}, 1),
                date, dist + 1)

find_transfer_candidates(d, txn) ==
    SortByDistance(
        SelectIdx(d.transactions,
            {i \in DOMAIN d.transactions :
                /\ d.transactions[i].account_id # txn.account_id
                /\ AmountOpposite(d.transactions[i].amount, txn.amount)
                /\ Abs(d.transactions[i].date - txn.date) <= TRANSFER_WINDOW_DAYS
                /\ d.transactions[i].id \notin Linked(d)}, 1),
        txn.date, 0)

insert_receipt_match(d, transaction_id) ==
    [d EXCEPT !.receipt_matches =
        Append(@, [id |-> Len(d.receipt_matches) + 1,
                   transaction_id |-> transaction_id])]

\* faulty variant: the transaction is also set back to pending
DeleteAllocations_ResetStatus(d, txn_id) ==
    [d EXCEPT !.allocations =
                  SelectIdx(@, {i \in DOMAIN @ : @[i].transaction_id # txn_id}, 1),
              !.transactions =
                  [i \in DOMAIN @ |->
                      IF @[i].id # txn_id THEN @[i]
                      ELSE [@[i] EXCEPT !.status = "pending"]]]

\* DELETE FROM allocations WHERE transaction_id = ? (scripts/reprocess_flagged.py)
DeleteAllocations(d, txn_id) ==
    [d EXCEPT !.allocations =
        SelectIdx(@, {i \in DOMAIN @ : @[i].transaction_id # txn_id}, 1)]

(***************************************************************************)
(* categorize/pipeline.py: _try_link_transfer, and sheets/overrides.py:    *)
(* _apply_transfer_link.  Each makes at most one write.                    *)
(***************************************************************************)
\* lines 362-384: which side of the transfer the transaction is
LinkDirection(txn, result, counterpart) ==
    LET outflow == [from |-> txn.id, to |-> counterpart.id]
        inflow == [from |-> counterpart.id, to |-> txn.id]
    IN  IF Truthy(result.from_account) /\ Truthy(result.to_account)
        THEN IF txn.account_id = result.from_account THEN outflow
             ELSE IF txn.account_id = result.to_account THEN inflow
             ELSE IF txn.amount < 0 THEN outflow ELSE inflow
        ELSE IF txn.amount < 0 THEN outflow ELSE inflow

_try_link_transfer(d, txn, result) ==
    LET candidates == find_transfer_candidates(d, txn)
        dir == LinkDirection(txn, result, candidates[1])
    IN  IF get_transfer_by_transaction(d, txn.id) # NoRow THEN d
        ELSE IF candidates = <<>> THEN d
        ELSE insert_transfer(d,
                 Transfer(dir.from, dir.to,
                          IF Truthy(result.transfer_type)
                          THEN result.transfer_type ELSE "internal-transfer",
                          "pattern_auto_link"))

\* faulty variant: a linked transaction that already is part of a transfer
\* is accepted
_apply_transfer_link_NoLinkedCheck(d, txn_id, linked_txn_id) ==
    IF txn_id = linked_txn_id THEN [db |-> d, error |-> TRUE]
    ELSE IF get_transfer_by_transaction(d, txn_id) # NoRow
    THEN [db |-> d, error |-> TRUE]
    ELSE IF get_transaction(d, linked_txn_id) = NoRow
    THEN [db |-> d, error |-> TRUE]
    ELSE IF get_transaction(d, txn_id) = NoRow
    THEN [db |-> d, error |-> TRUE]
    ELSE [db |-> insert_transfer(d,
                     Transfer(txn_id, linked_txn_id, "user-linked",
                              "user_override")),
          error |-> FALSE]

\* faulty variant: a transaction that already is part of a transfer is
\* accepted as the source of a new link
_apply_transfer_link_NoSourceCheck(d, txn_id, linked_txn_id) ==
    IF txn_id = linked_txn_id THEN [db |-> d, error |-> TRUE]
    ELSE IF get_transaction(d, linked_txn_id) = NoRow
    THEN [db |-> d, error |-> TRUE]
    ELSE IF get_transfer_by_transaction(d, linked_txn_id) # NoRow
    THEN [db |-> d, error |-> TRUE]
    ELSE IF get_transaction(d, txn_id) = NoRow
    THEN [db |-> d, error |-> TRUE]
    ELSE [db |-> insert_transfer(d,
                     Transfer(txn_id, linked_txn_id, "user-linked",
                              "user_override")),
          error |-> FALSE]

\* the database after the override and whether it was counted as an error
_apply_transfer_link(d, txn_id, linked_txn_id) ==
    IF txn_id = linked_txn_id THEN [db |-> d, error |-> TRUE]
    ELSE IF get_transfer_by_transaction(d, txn_id) # NoRow
    THEN [db |-> d, error |-> TRUE]
    ELSE IF get_transaction(d, linked_txn_id) = NoRow
    THEN [db |-> d, error |-> TRUE]
    ELSE IF get_transfer_by_transaction(d, linked_txn_id) # NoRow
    THEN [db |-> d, error |-> TRUE]
    ELSE IF get_transaction(d, txn_id) = NoRow
    THEN [db |-> d, error |-> TRUE]
    ELSE [db |-> insert_transfer(d,
                     Transfer(txn_id, linked_txn_id, "user-linked",
                              "user_override")),
          error |-> FALSE]

(***************************************************************************)
(* Specification of the life of imported transactions: categorization      *)
(* results are applied, receipts are applied, the spreadsheet overrides     *)
(* arrive, flagged transactions are reprocessed.  The core is               *)
(* single-threaded, so one handler runs at a time; a handler that commits   *)
(* several times advances one commit per step, and the process can stop     *)
(* between any two of them (Crash).                                         *)
(***************************************************************************)
\* the rows imported files left behind: a card payment and two credits of
\* the opposite amount on the other account
ImportedRows ==
    <<RawTransaction("a1", 1, -10000, "CARD PAYMENT", "e1"),
      RawTransaction("a2", 2, 10000, "CARD PAYMENT", "e2"),
      RawTransaction("a2", 4, 10000, "CARD PAYMENT", "e3")>>

\* the database with the first n of these rows, all pending
Imported(n) ==
    insert_transactions_batch(
        [EmptyDb EXCEPT !.imports = <<Import(1, "h0")>>],
        WithIds(EmptyDb,
            [i \in 1..n |-> Transaction(ImportedRows[i], 1, "bank", "pending")]))

\* ids a spreadsheet row can name: the transactions and one unknown id
SheetIds == {t.id : t \in Range(db.transactions)} \cup {9}

BaseEnv ==
    [found |-> <<>>, cat_filter |-> [declared |-> FALSE],
     transfer_cats |-> [t \in TransferTypes |-> "xfer-internal"],
     fallback |-> "uncategorized",
     has_repo |-> TRUE, has_normalized_description |-> TRUE,
     has_receipt_lookup |-> TRUE, has_claude_fn |-> FALSE]

\* what the matchers can find for a transaction of the lifecycle
LifecycleFounds ==
    {<<>>,
     [s \in {"merchant_auto"} |-> [category_id |-> "coffee-d"]],
     [s \in {"transfer"} |->
         [transfer_type |-> "cc-payment", from_account |-> "a1",
          to_account |-> "a2"]],
     [s \in {"transfer_inferred"} |->
         [transfer_type |-> "cc-payment", from_account |-> None,
          to_account |-> None]],
     [s \in {"gmail_receipt"} |->
         [matched |-> TRUE,
          items |-> <<ReceiptItem("coffee-d", 6000), ReceiptItem(None, 4000)>>]],
     [s \in {"gmail_receipt"} |-> [matched |-> TRUE, items |-> <<>>]]}

LifecycleEnvs == {[BaseEnv EXCEPT !.found = f] : f \in LifecycleFounds}

\* the inputs on which the pipeline detects a transfer
TransferEnvs == {env \in LifecycleEnvs : categorize_transaction(env).is_transfer}

Init ==
    /\ db = Imported(1)
    /\ op = Idle
    /\ last = [kind |-> "none"]

\* a handler in progress: the writes it has committed (done), the status
\* write it still owes, and where it continues
Handler(fn, txn, result, pc, done, status, confidence, method) ==
    [kind |-> "handler", fn |-> fn, txn |-> txn, result |-> result, pc |-> pc,
     done |-> done, status |-> status, confidence |-> confidence,
     method |-> method]

\* a handler has returned
Returned(fn, txn_id, done) == [kind |-> "returned", fn |-> fn]

\* receipt_lookup.apply_result up to its first commit (lines 190-203)
ApplyResultStart(txn, result) ==
    IF ~result.receipt_result.matched \/ result.receipt_result.items = <<>>
    THEN /\ op' = Idle
         /\ db' = db
         /\ last' = Returned("apply_result", txn.id, <<>>)
    ELSE /\ Len(db.receipt_matches) < MaxReceiptMatches
         /\ Len(db.allocations) + Len(result.receipt_result.items) <= MaxAllocs
         /\ db' = insert_receipt_match(db, txn.id)
         /\ op' = Handler("apply_result", txn, result, "after_match",
                          <<"insert_receipt_match">>, "categorized",
                          result.confidence, "gmail_receipt")
         /\ UNCHANGED last

\* faulty variant: the status is written before the allocation
ApplyGenericStart_StatusFirst(d, txn, result) ==
    /\ Len(d.allocations) < MaxAllocs
    /\ db' = update_transaction_status(d, txn.id,
                 IF result.method # "manual_review"
                 THEN "categorized" ELSE "flagged",
                 result.confidence, result.method)
    /\ op' = Handler("apply_categorization", txn, result, "allocated",
                     <<"update_transaction_status">>,
                     IF result.method # "manual_review"
                     THEN "categorized" ELSE "flagged",
                     result.confidence, result.method)
    /\ UNCHANGED last

\* apply_categorization from line 255 on, up to the allocation insert
ApplyGenericStart(d, txn, result) ==
    /\ Len(d.allocations) < MaxAllocs
    /\ db' = insert_allocation(d,
                 Allocation(txn.id, result.category_id, txn.amount, "auto",
                            result.confidence))
    /\ op' = Handler("apply_categorization", txn, result, "allocated",
                     <<"insert_allocation">>,
                     IF result.method # "manual_review"
                     THEN "categorized" ELSE "flagged",
                     result.confidence, result.method)
    /\ UNCHANGED last

\* categorize_pending / process_file: one transaction that awaits
\* categorization is categorized and apply_categorization is entered; the
\* action ends with the first commit
ApplyStart(envs) ==
    \E i \in DOMAIN db.transactions, env \in envs :
        LET txn == db.transactions[i]
            result == categorize_transaction(env)
        IN  /\ op = Idle
            /\ txn.status \in {"pending", "flagged"}
            /\ IF /\ result.method = "gmail_receipt"
                  /\ result.receipt_result # NoReceipt
                  /\ env.has_receipt_lookup
               THEN ApplyResultStart(txn, result)
               ELSE ApplyGenericStart(db, txn, result)

ApplyCategorization == ApplyStart(LifecycleEnvs)

\* scripts/reprocess_flagged.py: a flagged transaction is categorized anew
\* (no receipt lookup, no AI), its allocations are deleted and committed;
\* apply_categorization follows
ReprocessFlagged ==
    \E i \in DOMAIN db.transactions, env \in LifecycleEnvs :
        LET txn == db.transactions[i]
            result == categorize_transaction(
                          [env EXCEPT !.has_receipt_lookup = FALSE])
        IN  /\ op = Idle
            /\ txn.status = "flagged"
            /\ db' = DeleteAllocations(db, txn.id)
            /\ op' = Handler("apply_categorization", txn, result, "deleted",
                             <<"delete_allocations">>,
                             IF result.method # "manual_review"
                             THEN "categorized" ELSE "flagged",
                             result.confidence, result.method)
            /\ UNCHANGED last

\* apply_categorization after the delete of reprocess_flagged
InsertAllocationStep ==
    /\ op.kind = "handler" /\ op.pc = "deleted"
    /\ db' = insert_allocation(db,
                 Allocation(op.txn.id, op.result.category_id, op.txn.amount,
                            "auto", op.result.confidence))
    /\ op' = [op EXCEPT !.pc = "allocated",
                        !.done = Append(@, "insert_allocation")]
    /\ UNCHANGED last

\* the status update that follows the allocation insert (pipeline.py 268,
\* overrides.py 601)
UpdateStatusStep ==
    /\ op.kind = "handler" /\ op.pc = "allocated"
    /\ db' = update_transaction_status(db, op.txn.id, op.status, op.confidence,
                                       op.method)
    /\ IF /\ op.fn = "apply_categorization"
          /\ op.result.is_transfer /\ Truthy(op.result.transfer_type)
       THEN /\ op' = [op EXCEPT !.pc = "link",
                                !.done = Append(@, "update_transaction_status")]
            /\ UNCHANGED last
       ELSE /\ op' = Idle
            /\ last' = Returned(op.fn, op.txn.id,
                                Append(op.done, "update_transaction_status"))

\* faulty variant: a failed link takes the categorization back
LinkFailed_Undo(d, txn) ==
    update_transaction_status(DeleteAllocations(d, txn.id), txn.id, "pending",
                              SENTINEL, NoMethod)

\* lines 280-281: the except branch logs a warning, no write
LinkFailed(d, txn) == d

\* the transfer link at the end of apply_categorization, lines 277-281:
\* _try_link_transfer returns, or one of its repository calls raises before
\* anything is written and the except branch takes over; the function
\* returns in both cases
LinkTransferStep ==
    \E raised \in BOOLEAN :
        /\ op.kind = "handler" /\ op.pc = "link"
        /\ db' = IF raised THEN LinkFailed(db, op.txn)
                 ELSE _try_link_transfer(db, op.txn, op.result)
        /\ op' = Idle
        /\ last' = [kind |-> "link_attempt", fn |-> op.fn, txn_id |-> op.txn.id,
                    raised |-> raised]

\* apply_result after the receipt match was saved: nothing more when the
\* transaction has allocations, else one allocation per item, each committed
\* on its own, then the status
ReceiptStep ==
    /\ op.kind = "handler" /\ op.pc \in {"after_match", "items"}
    /\ LET items == op.result.receipt_result.items
           n == Len(SelectIdx(op.done,
                        {k \in DOMAIN op.done : op.done[k] = "insert_allocation"},
                        1))
           sign == IF op.txn.amount < 0 THEN -1 ELSE 1
           item == items[n + 1]
       IN  IF op.pc = "after_match"
              /\ get_allocations_by_transaction(db, op.txn.id) # <<>>
           THEN /\ db' = db
                /\ op' = Idle
                /\ last' = Returned(op.fn, op.txn.id, op.done)
           ELSE IF n < Len(items)
           THEN /\ db' = insert_allocation(db,
                            Allocation(op.txn.id,
                                IF Truthy(item.category_id)
                                THEN item.category_id ELSE "uncategorized",
                                sign * Abs(item.amount), "gmail_receipt",
                                op.result.confidence))
                /\ op' = [op EXCEPT !.pc = "items",
                                    !.done = Append(@, "insert_allocation")]
                /\ UNCHANGED last
           ELSE /\ db' = update_transaction_status(db, op.txn.id, op.status,
                                                   op.confidence, op.method)
                /\ op' = Idle
                /\ last' = Returned(op.fn, op.txn.id,
                               Append(op.done, "update_transaction_status"))

\* a Review-sheet category for a transaction: the allocation is inserted,
\* the status follows in UpdateStatusStep
CreateAllocationFromOverride ==
    \E txn_id \in SheetIds :
        LET txn == get_transaction(db, txn_id)
        IN  /\ op = Idle
            /\ IF txn = NoRow
               THEN /\ UNCHANGED <<db, op>>
                    /\ last' = Returned("_create_allocation_from_override",
                                        txn_id, <<>>)
               ELSE /\ Len(db.allocations) < MaxAllocs
                    /\ db' = insert_allocation(db,
                                 Allocation(txn_id, "groceries", txn.amount,
                                            "user", 100))
                    /\ op' = Handler("_create_allocation_from_override", txn,
                                     [method |-> "user_override"], "allocated",
                                     <<"insert_allocation">>, "categorized",
                                     100, "user_override")
                    /\ UNCHANGED last

ApplyReviewedFlag ==
    \E txn_id \in SheetIds :
        /\ op = Idle
        /\ db' = update_transaction_status(db, txn_id, "reviewed", SENTINEL,
                                           NoMethod)
        /\ last' = Returned("_apply_reviewed_flag", txn_id,
                            <<"update_transaction_status">>)
        /\ UNCHANGED op

ApplyNeedsSplit ==
    \E txn_id \in SheetIds :
        /\ op = Idle
        /\ db' = update_transaction_status(db, txn_id, "flagged", SENTINEL,
                                           NoMethod)
        /\ last' = Returned("_apply_needs_split", txn_id,
                            <<"update_transaction_status">>)
        /\ UNCHANGED op

ApplyTransferLink ==
    \E txn_id \in SheetIds, linked_txn_id \in SheetIds :
        LET r == _apply_transfer_link(db, txn_id, linked_txn_id)
        IN  /\ op = Idle
            /\ db' = r.db
            /\ last' = [kind |-> "link_override", txn_id |-> txn_id,
                        linked_txn_id |-> linked_txn_id, error |-> r.error]
            /\ UNCHANGED op

\* the process stops between two commits of a handler, or a write raises:
\* the rest of the handler does not happen
Crash ==
    /\ op.kind = "handler"
    /\ op' = Idle
    /\ last' = [kind |-> "crash", fn |-> op.fn, txn_id |-> op.txn.id,
                done |-> op.done, pre_status |-> op.txn.status]
    /\ UNCHANGED db

Next ==
    \/ ApplyCategorization
    \/ ReprocessFlagged
    \/ InsertAllocationStep
    \/ UpdateStatusStep
    \/ LinkTransferStep
    \/ ReceiptStep
    \/ CreateAllocationFromOverride
    \/ ApplyReviewedFlag
    \/ ApplyNeedsSplit
    \/ Crash

Spec == Init /\ [][Next]_vars

(***************************************************************************)
(* Specification of transfer linking: three imported transactions, the     *)
(* pipeline detects transfers and apply_categorization links them, and     *)
(* the spreadsheet's transfer-link overrides arrive in any order.          *)
(***************************************************************************)
InitTransfers ==
    /\ db = Imported(3)
    /\ op = Idle
    /\ last = [kind |-> "none"]

ApplyTransferCategorization == ApplyStart(TransferEnvs)

NextTransfers ==
    \/ ApplyTransferCategorization
    \/ UpdateStatusStep
    \/ LinkTransferStep
    \/ ApplyTransferLink
    \/ Crash

SpecTransfers == InitTransfers /\ [][NextTransfers]_vars

(***************************************************************************)
(* Specification of the automatic transfer link: apply_categorization on   *)
(* ledgers whose rows differ in account, date and amount, some of them a   *)
(* cent away from the opposite amount.                                     *)
(***************************************************************************)
MaxLedger == 3

\* payments of 100.00 and 40.00 from a1 and credits on a2 and a1, on the
\* day, three days later and six days later
LedgerRows ==
    <<RawTransaction("a1", 5, -10000, "CARD PAYMENT", "e1"),
      RawTransaction("a2", 5, 10001, "CARD PAYMENT", "e2"),
      RawTransaction("a2", 8, 10000, "CARD PAYMENT", "e3"),
      RawTransaction("a1", 5, -4000, "CARD PAYMENT", "e4"),
      RawTransaction("a2", 5, 4001, "CARD PAYMENT", "e5"),
      RawTransaction("a2", 8, 4000, "CARD PAYMENT", "e6"),
      RawTransaction("a2", 11, 10000, "CARD PAYMENT", "e7"),
      RawTransaction("a1", 6, 10000, "CARD PAYMENT", "e8")>>

\* the database an import of the rows at the positions keep leaves behind
Ledger(keep) ==
    LET rows == SelectIdx(LedgerRows, keep, 1)
    IN  insert_transactions_batch(
            [EmptyDb EXCEPT !.imports = <<Import(1, "h0")>>],
            WithIds(EmptyDb,
                [i \in DOMAIN rows |->
                    Transaction(rows[i], 1, "bank", "pending")]))

InitLink ==
    /\ \E keep \in SUBSET DOMAIN LedgerRows :
           /\ Cardinality(keep) \in 2..MaxLedger
           /\ db = Ledger(keep)
    /\ op = Idle
    /\ last = [kind |-> "none"]

NextLink ==
    \/ ApplyTransferCategorization
    \/ UpdateStatusStep
    \/ LinkTransferStep

SpecLink == InitLink /\ [][NextLink]_vars

(***************************************************************************)
(* Specification of categorization on accounts with a category filter:     *)
(* every account of the configuration is a business account, and pending   *)
(* transactions are categorized and the results applied.                   *)
(***************************************************************************)
\* config.category_filter_for(account_id): prefix biz-, id earnings, default
\* category biz-other
BusinessFilter ==
    [declared |-> TRUE, compatible_prefixes |-> {"biz-"},
     compatible_ids |-> {"earnings"}, default_category |-> "biz-other"]

FilteredEnvs ==
    {[env EXCEPT !.cat_filter = BusinessFilter] : env \in LifecycleEnvs}

InitFiltered ==
    /\ db = Imported(2)
    /\ op = Idle
    /\ last = [kind |-> "none"]

ApplyFilteredCategorization == ApplyStart(FilteredEnvs)

NextFiltered ==
    \/ ApplyFilteredCategorization
    \/ UpdateStatusStep
    \/ LinkTransferStep
    \/ ReceiptStep

SpecFiltered == InitFiltered /\ [][NextFiltered]_vars

(***************************************************************************)
(* watcher/observer.py: ImportPipeline.process_file, with the functions it *)
(* calls taken to their end (no interruption).                             *)
(***************************************************************************)
SUPPORTED_EXTENSIONS == {".qfx", ".ofx", ".csv"}

\* str.lower() on the suffixes of the model
Lower(suffix) == IF suffix = ".QFX" THEN ".qfx" ELSE suffix

\* the imports table is keyed by file_hash (unique): the insert raises
\* DuplicateImportError when the hash is there
insert_import(d, imp) ==
    IF \E i \in DOMAIN d.imports : d.imports[i].file_hash = imp.file_hash
    THEN [db |-> d, raised |-> TRUE]
    ELSE [db |-> [d EXCEPT !.imports = Append(@, imp)], raised |-> FALSE]

\* faulty variant: the UPDATE has no WHERE clause
update_import_status_AllRows(d, import_id, status, record_count, error_message) ==
    [d EXCEPT !.imports =
        [i \in DOMAIN @ |->
            [@[i] EXCEPT
                !.status = status,
                !.record_count = IF record_count = SENTINEL THEN @
                                 ELSE record_count,
                !.error_message = IF error_message = NoMethod THEN @
                                  ELSE error_message]]]

\* faulty variant: an import that ends in error gives its file hash up
update_import_status_ForgetErrored(d, import_id, status, record_count, error_message) ==
    [d EXCEPT !.imports =
        [i \in DOMAIN @ |->
            IF @[i].id # import_id THEN @[i]
            ELSE [@[i] EXCEPT
                     !.status = status,
                     !.file_hash = IF status = "error" THEN None ELSE @,
                     !.record_count = IF record_count = SENTINEL THEN @
                                      ELSE record_count,
                     !.error_message = IF error_message = NoMethod THEN @
                                       ELSE error_message]]]

\* record_count is written only when it is passed (None: not passed)
update_import_status(d, import_id, status, record_count, error_message) ==
    [d EXCEPT !.imports =
        [i \in DOMAIN @ |->
            IF @[i].id # import_id THEN @[i]
            ELSE [@[i] EXCEPT
                     !.status = status,
                     !.record_count = IF record_count = SENTINEL THEN @
                                      ELSE record_count,
                     !.error_message = IF error_message = NoMethod THEN @
                                       ELSE error_message]]]

\* receipt_lookup.apply_result
RECURSIVE InsertItems(_, _, _, _)
InsertItems(d, txn, items, confidence) ==
    IF items = <<>> THEN d
    ELSE InsertItems(
             insert_allocation(d,
                 Allocation(txn.id,
                     IF Truthy(Head(items).category_id)
                     THEN Head(items).category_id ELSE "uncategorized",
                     (IF txn.amount < 0 THEN -1 ELSE 1) * Abs(Head(items).amount),
                     "gmail_receipt", confidence)),
             txn, Tail(items), confidence)

apply_result(d, txn, result) ==
    IF ~result.receipt_result.matched \/ result.receipt_result.items = <<>>
    THEN d
    ELSE LET d1 == insert_receipt_match(d, txn.id)
         IN  IF get_allocations_by_transaction(d1, txn.id) # <<>> THEN d1
             ELSE update_transaction_status(
                      InsertItems(d1, txn, result.receipt_result.items,
                                  result.confidence),
                      txn.id, "categorized", result.confidence, "gmail_receipt")

apply_categorization(d, txn, result, has_receipt_lookup) ==
    IF /\ result.method = "gmail_receipt"
       /\ result.receipt_result # NoReceipt
       /\ has_receipt_lookup
    THEN apply_result(d, txn, result)
    ELSE LET d1 == insert_allocation(d,
                       Allocation(txn.id, result.category_id, txn.amount,
                                  "auto", result.confidence))
             d2 == update_transaction_status(d1, txn.id,
                       IF result.method # "manual_review"
                       THEN "categorized" ELSE "flagged",
                       result.confidence, result.method)
         IN  IF result.is_transfer /\ Truthy(result.transfer_type)
             THEN _try_link_transfer(d2, txn, result)
             ELSE d2

\* `trace` is not a field of the dataclass: it lists the stages the call
\* went through after the extension check
ImportResult(file, status, new_count, duplicate_count, flagged_count, categorized_count, trace) ==
    [kind |-> "import", file |-> file, status |-> status,
     new_count |-> new_count, duplicate_count |-> duplicate_count,
     flagged_count |-> flagged_count,
     categorized_count |-> categorized_count, error_message |-> None,
     trace |-> trace]

\* ImportResult(file_name=..., status="error", error_message=...)
ImportError(file, error_message, trace) ==
    [ImportResult(file, "error", 0, 0, 0, 0, trace) EXCEPT
         !.error_message = error_message]

(***************************************************************************)
(* Specification of the import of files (watcher/observer.py,              *)
(* ImportPipeline.process_file): files are dropped in any order, again and *)
(* under other names, into an empty database.  One call of process_file    *)
(* advances stage by stage; the core is single-threaded, so the next file  *)
(* is taken up when the call has returned.                                 *)
(***************************************************************************)
\* file contents and their SHA-256: two statements that share a row, an
\* empty statement, and a file no parser reads
FileContents ==
    {[file_hash |-> "h1", parsable |-> TRUE,
      rows |-> <<ImportedRows[1], ImportedRows[2]>>],
     [file_hash |-> "h2", parsable |-> TRUE, rows |-> <<ImportedRows[1]>>],
     [file_hash |-> "h3", parsable |-> TRUE, rows |-> <<>>],
     [file_hash |-> "h4", parsable |-> FALSE, rows |-> <<>>]}

Files ==
    {[suffix |-> x, file_hash |-> c.file_hash, parsable |-> c.parsable,
      rows |-> c.rows] : x \in {".qfx", ".QFX", ".txt"}, c \in FileContents}

InitImport ==
    /\ db = EmptyDb
    /\ op = Idle
    /\ last = [kind |-> "none"]

\* process_file in progress
Importing(file, env, import_id, pc, st, todo, counts, trace) ==
    [kind |-> "import", file |-> file, env |-> env, import_id |-> import_id,
     pc |-> pc, st |-> st, todo |-> todo, counts |-> counts, trace |-> trace]

NoCounts ==
    [new_count |-> 0, duplicate_count |-> 0, flagged_count |-> 0,
     categorized_count |-> 0]

\* steps 1-3: extension check, file hash check, the import row
ImportStart ==
    \E file \in Files, env \in LifecycleEnvs :
        LET ins == insert_import(db, Import(Len(db.imports) + 1, file.file_hash))
            trace == <<"check_file_duplicate", "insert_import">>
        IN  /\ op = Idle
            /\ IF Lower(file.suffix) \notin SUPPORTED_EXTENSIONS
               THEN /\ last' = ImportError(file, "unsupported", <<>>)
                    /\ UNCHANGED <<db, op>>
               ELSE IF check_file_duplicate(db, file.file_hash)
               THEN /\ last' = ImportResult(file, "duplicate", 0, 0, 0, 0,
                                            <<"check_file_duplicate">>)
                    /\ UNCHANGED <<db, op>>
               ELSE IF ins.raised
               THEN /\ last' = ImportResult(file, "duplicate", 0, 0, 0, 0, trace)
                    /\ UNCHANGED <<db, op>>
               ELSE /\ db' = ins.db
                    /\ op' = Importing(file, env, Len(db.imports) + 1, "parse",
                                       BatchStart, <<>>, NoCounts, trace)
                    /\ UNCHANGED last

\* steps 4-5: detect_parser or the parser raises (the message str(e) is
\* written as the name of the stage that raised), the parser returns no
\* rows, or it hands its rows to process_batch
ImportParse ==
    /\ op.kind = "import" /\ op.pc = "parse"
    /\ IF ~op.file.parsable
       THEN \E stage \in {"detect_parser", "parse"} :
                /\ db' = update_import_status(db, op.import_id, "error",
                                              SENTINEL, stage)
                /\ op' = Idle
                /\ last' = ImportError(op.file, stage,
                               op.trace \o <<stage, "update_import_status">>)
       ELSE IF op.file.rows = <<>>
       THEN /\ db' = update_import_status(db, op.import_id, "completed", 0,
                                          NoMethod)
            /\ op' = Idle
            /\ last' = ImportResult(op.file, "success", 0, 0, 0, 0,
                           op.trace \o <<"parse", "update_import_status">>)
       ELSE /\ op' = [op EXCEPT !.pc = "batch", !.todo = op.file.rows,
                                !.trace = @ \o <<"parse", "process_batch">>]
            /\ UNCHANGED <<db, last>>

\* step 6, one row of process_batch
ImportRow ==
    /\ op.kind = "import" /\ op.pc = "batch" /\ op.todo # <<>>
    /\ op' = [op EXCEPT !.st = BatchRow(db, op.st, Head(op.todo),
                                        op.import_id, "bank"),
                        !.todo = Tail(@)]
    /\ UNCHANGED <<db, last>>

\* step 6, the batch insert at the end of process_batch
ImportInsert ==
    /\ op.kind = "import" /\ op.pc = "batch" /\ op.todo = <<>>
    /\ LET r == BatchFinish(db, op.st)
       IN  /\ db' = r.db
           /\ op' = [op EXCEPT !.pc = "categorize", !.st = BatchStart,
                               !.todo = r.transactions,
                               !.counts = [new_count |-> r.new_count,
                                           duplicate_count |-> r.duplicate_count,
                                           flagged_count |-> r.flagged_count,
                                           categorized_count |-> 0],
                               !.trace = @ \o <<"categorize">>]
    /\ UNCHANGED last

\* step 7, one transaction of the batch result
ImportCategorize ==
    /\ op.kind = "import" /\ op.pc = "categorize" /\ op.todo # <<>>
    /\ db' = IF Head(op.todo).status \in {"pending", "flagged"}
             THEN apply_categorization(db, Head(op.todo),
                      categorize_transaction(op.env), op.env.has_receipt_lookup)
             ELSE db
    /\ op' = [op EXCEPT !.todo = Tail(@),
                        !.counts.categorized_count =
                            IF Head(op.todo).status \in {"pending", "flagged"}
                            THEN @ + 1 ELSE @]
    /\ UNCHANGED last

\* process_batch or the categorization of the next transaction raises: the
\* except branch of process_file, lines 384-397
ImportRaise ==
    /\ op.kind = "import"
    /\ op.pc = "batch" \/ (op.pc = "categorize" /\ op.todo # <<>>)
    /\ LET stage == IF op.pc = "batch" THEN "process_batch" ELSE "categorize"
       IN  /\ db' = update_import_status(db, op.import_id, "error", SENTINEL,
                                         stage)
           /\ last' = ImportError(op.file, stage,
                          op.trace \o <<"update_import_status">>)
    /\ op' = Idle

\* the import is completed and the ImportResult returned
ImportFinish ==
    /\ op.kind = "import" /\ op.pc = "categorize" /\ op.todo = <<>>
    /\ db' = update_import_status(db, op.import_id, "completed",
                                  Len(op.file.rows), NoMethod)
    /\ op' = Idle
    /\ last' = ImportResult(op.file, "success", op.counts.new_count,
                   op.counts.duplicate_count, op.counts.flagged_count,
                   op.counts.categorized_count,
                   op.trace \o <<"update_import_status">>)

NextImport ==
    \/ ImportStart
    \/ ImportParse
    \/ ImportRow
    \/ ImportInsert
    \/ ImportCategorize
    \/ ImportRaise
    \/ ImportFinish

SpecImport == InitImport /\ [][NextImport]_vars

(***************************************************************************)
(* Claims about the life of a transaction (Spec) and about transfer        *)
(* linking (SpecTransfers)                                                 *)
(***************************************************************************)
\* the handlers that insert allocations and then write the status
AllocatingHandlers ==
    {"apply_categorization", "apply_result", "_create_allocation_from_override"}

\* the process stopped in the middle of a handler and nothing ran since
JustCrashed == last.kind = "crash" /\ op = Idle

\* C1: in every reachable database state, the states a crash or a failed
\* write leaves between two writes of apply_categorization, apply_result or
\* the category override included, no transaction is `categorized` without
\* an allocation; and an interruption before the status update leaves a
\* pending transaction pending.
C1_CategorizedHasAllocation ==
    /\ \A t \in Range(db.transactions) :
           t.status = "categorized" =>
               get_allocations_by_transaction(db, t.id) # <<>>
    /\ JustCrashed /\ last.fn \in AllocatingHandlers
           /\ last.pre_status = "pending"
           /\ "update_transaction_status" \notin Range(last.done) =>
               get_transaction(db, last.txn_id).status = "pending"

\* apply_categorization stopped between the allocation insert and the status
\* update of a pending transaction
C1_Witness ==
    /\ JustCrashed
    /\ last.fn = "apply_categorization"
    /\ last.pre_status = "pending"
    /\ last.done = <<"insert_allocation">>
    /\ get_allocations_by_transaction(db, last.txn_id) # <<>>
    /\ get_transaction(db, last.txn_id).status = "pending"

\* C2: after any sequence of apply_categorization calls that link transfers
\* and of transfer-link overrides, every transaction id occurs, as from or as
\* to, in at most one transfer row.
C2_OneTransferPerTransaction ==
    \A i, j \in DOMAIN db.transfers :
        i # j =>
            {db.transfers[i].from_transaction_id,
             db.transfers[i].to_transaction_id}
            \cap {db.transfers[j].from_transaction_id,
                  db.transfers[j].to_transaction_id} = {}

\* apply_categorization linked two transactions, and an override that names
\* the third transaction and one of the linked ones was rejected
C2_Witness ==
    /\ last.kind = "link_override"
    /\ last.error
    /\ get_transaction(db, last.txn_id) # NoRow
    /\ last.txn_id \notin Linked(db)
    /\ last.linked_txn_id \in Linked(db)
    /\ Len(db.transfers) = 1
    /\ db.transfers[1].match_method = "pattern_auto_link"

\* C10 as stated: after an interruption of apply_categorization either both
\* the allocation and the status are persisted or neither is.
C10_AsStated ==
    JustCrashed /\ last.fn = "apply_categorization" =>
        ("insert_allocation" \in Range(last.done)
            <=> "update_transaction_status" \in Range(last.done))

\* C10 (amended): the allocation insert and the status update of
\* apply_categorization are two commits.  After an interruption either
\* neither is persisted, or only the allocation is and the status is what it
\* was, or both are; the status is never persisted without the allocation.
C10_AllocationThenStatus ==
    JustCrashed /\ last.fn = "apply_categorization" =>
        LET t == get_transaction(db, last.txn_id)
            allocs == get_allocations_by_transaction(db, last.txn_id)
            inserted == "insert_allocation" \in Range(last.done)
            updated == "update_transaction_status" \in Range(last.done)
        IN  \/ ~inserted /\ ~updated /\ t.status = last.pre_status
            \/ /\ inserted /\ ~updated
               /\ allocs # <<>>
               /\ allocs[Len(allocs)].source = "auto"
               /\ t.status = last.pre_status
            \/ /\ inserted /\ updated
               /\ allocs # <<>>
               /\ allocs[Len(allocs)].source = "auto"
               /\ t.status \in {"categorized", "flagged"}
               /\ t.categorization_method # None

\* the reprocessing of a flagged transaction stopped after the allocation
\* insert: the new allocation is there, the transaction is still flagged
C10_Witness ==
    /\ JustCrashed
    /\ last.fn = "apply_categorization"
    /\ last.pre_status = "flagged"
    /\ last.done = <<"delete_allocations", "insert_allocation">>
    /\ Len(get_allocations_by_transaction(db, last.txn_id)) = 1
    /\ get_transaction(db, last.txn_id).status = "flagged"

\* the hash of the file is the hash of a recorded import
Recorded(d, file) ==
    \E i \in DOMAIN d.imports : d.imports[i].file_hash = file.file_hash

C11_LinkedTransactionNotRelinked ==
    [][op = Idle /\ op' = Idle /\ last'.kind = "link_override"
          /\ (last'.txn_id \in Linked(db) \/ last'.linked_txn_id \in Linked(db)) =>
              /\ db' = db
              /\ last'.error]_vars

\* transaction 1 is linked by a pattern link; the override that asks to link
\* it, as the source, with the free third transaction was rejected
C11_Witness ==
    /\ last.kind = "link_override"
    /\ last.error
    /\ last.txn_id \in Linked(db)
    /\ get_transaction(db, last.linked_txn_id) # NoRow
    /\ last.linked_txn_id \notin Linked(db)
    /\ last.linked_txn_id # last.txn_id
    /\ Len(db.transfers) = 1

\* the import hash of an incoming row
RawHash(raw) ==
    compute_import_hash(raw.account_id, raw.date, raw.amount, raw.raw_description)

\* the rows a batch row is compared with: the database and the rows the
\* batch has queued for insertion
Known == Range(db.transactions) \cup Range(op.st.new_txns) \cup Range(op.st.flagged)

SameRow(q, raw) ==
    \/ /\ Truthy(raw.external_id)
       /\ q.account_id = raw.account_id /\ q.external_id = raw.external_id
    \/ /\ ~Truthy(raw.external_id) /\ ~Truthy(q.external_id)
       /\ q.import_hash = RawHash(raw)

\* C13: within one process_batch call, a row whose (account, external id),
\* or, without external id, whose import hash is that of a row the batch has
\* already queued for insertion is counted as a duplicate and not queued: of
\* such rows at most one is inserted.
C13_IntraBatchDuplicates ==
    [][op.kind = "batch" /\ op'.kind = "batch" =>
          LET raw == op'.st.decision.raw
              queued == Range(op.st.new_txns) \cup Range(op.st.flagged)
              queued2 == Range(op'.st.new_txns) \cup Range(op'.st.flagged)
          IN  /\ (\E q \in queued : SameRow(q, raw)) =>
                     /\ op'.st.decision.status = "duplicate"
                     /\ op'.st.duplicates = op.st.duplicates + 1
                     /\ op'.st.new_txns = op.st.new_txns
                     /\ op'.st.flagged = op.st.flagged
              /\ Cardinality({q \in queued2 : SameRow(q, raw)}) <= 1
              /\ Len(op'.st.new_txns) + Len(op'.st.flagged)
                     = Cardinality(queued2)]_vars

\* the file repeats a row with an external id the database does not know:
\* the first is queued, the second is a duplicate at the external-id check
C13_Witness ==
    /\ op.kind = "batch"
    /\ op.st.decision.status = "duplicate"
    /\ op.st.decision.tier = "external_id"
    /\ \E q \in Range(op.st.new_txns) : SameRow(q, op.st.decision.raw)
    /\ \A m \in Range(db.transactions) :
           ~(m.account_id = op.st.decision.raw.account_id
                /\ m.external_id = op.st.decision.raw.external_id)
    /\ op.st.duplicates = 1

(***************************************************************************)
(* categorize/receipt_lookup.py: ReceiptLookup, and categorize/claude_ai.py *)
(* categorize_single.  Amounts are in cents.                               *)
(***************************************************************************)
APPLE_TOLERANCE == 100

\* 0.05, in percent
AMAZON_TOLERANCE_PCT == 5

MONTHLY_BUDGET_CENTS == 500

CLAUDE_RECEIPT_PARSE_COST_CENTS == 3

CLAUDE_CATEGORIZE_COST_CENTS == 2

\* txn.date[:7]: a date of this part is written month * 100 + day
Month(date) == date \div 100

NoUsage == [request_count |-> 0, estimated_cost_cents |-> 0]

\* the api_usage row of (month, service)
Usage(d, month, service) ==
    IF <<month, service>> \in DOMAIN d.api_usage
    THEN d.api_usage[<<month, service>>] ELSE NoUsage

\* INSERT ... ON CONFLICT(month, service) DO UPDATE SET the counters
increment_api_usage(d, month, service, requests, cost_cents) ==
    [d EXCEPT !.api_usage =
        DictPut(@, <<month, service>>,
            [request_count |-> Usage(d, month, service).request_count + requests,
             estimated_cost_cents |->
                 Usage(d, month, service).estimated_cost_cents + cost_cents])]

\* SELECT COALESCE(SUM(estimated_cost_cents), 0) ... WHERE month = ?
get_monthly_cost(d, month) ==
    Usage(d, month, "gmail_search").estimated_cost_cents
    + Usage(d, month, "claude_receipt_parse").estimated_cost_cents
    + Usage(d, month, "claude_categorize").estimated_cost_cents

set_receipt_lookup_status(d, txn_id, status) ==
    [d EXCEPT !.transactions =
        [i \in DOMAIN @ |->
            IF @[i].id # txn_id THEN @[i]
            ELSE [@[i] EXCEPT !.receipt_lookup_status = status]]]

\* a total of 0 stands for None
ParsedReceipt(items, order_total, shipment_total) ==
    [items |-> items, order_total |-> order_total,
     shipment_total |-> shipment_total]

ReceiptResult(matched, items, gmail_message_id, match_type, confidence) ==
    [matched |-> matched, items |-> items,
     gmail_message_id |-> gmail_message_id, match_type |-> match_type,
     confidence |-> confidence]

\* stands for the None that resolve and the matchers return
NoMatch == ReceiptResult(FALSE, <<>>, None, None, 0)

\* the pattern tests on the upper-cased description, tabulated
_get_merchant_type(txn) ==
    CASE txn.raw_description = "APPLE.COM/BILL" -> "apple"
      [] txn.raw_description \in {"AMAZON.COM*ORDER1", "AMAZON.COM*ORDER2",
                                  "Amazon"} -> "amazon"
      [] OTHER -> None

ItemAmounts(items) == [i \in DOMAIN items |-> items[i].amount]

\* the non-empty combinations of positions whose amounts sum to one of sums
Combinations(amounts, sums) ==
    {c \in SUBSET (1..Len(amounts)) : c # {} /\ SumAt(amounts, c) \in sums}

\* the first of them as the loops meet them: sizes ascending, and the order
\* of itertools.combinations within a size; the empty set when there is none
FirstCombination(hits) ==
    IF hits = {} THEN {}
    ELSE CHOOSE c \in hits :
             \A o \in hits \ {c} :
                 \/ Cardinality(c) < Cardinality(o)
                 \/ Cardinality(c) = Cardinality(o) /\ CombLess(c, o)

_resolve_apple(txn, items, email_bodies) ==
    LET charge == Abs(txn.amount)
        combo == FirstCombination(Combinations(ItemAmounts(items),
                     (charge - APPLE_TOLERANCE)..(charge + APPLE_TOLERANCE)))
    IN  IF combo = {} THEN NoMatch
        ELSE ReceiptResult(TRUE, SelectIdx(items, combo, 1),
                           IF email_bodies # <<>> THEN email_bodies[1] ELSE None,
                           "apple_subset_sum", 85)

\* abs(total - charge) / charge <= AMAZON_TOLERANCE_PCT
WithinPct(total, charge) ==
    100 * Abs(total - charge) <= AMAZON_TOLERANCE_PCT * charge

\* the positive totals within the tolerance of a positive charge
PctRange(charge) ==
    (charge - (AMAZON_TOLERANCE_PCT * charge) \div 100)
        ..(charge + (AMAZON_TOLERANCE_PCT * charge) \div 100)

_subset_sum_match(charge, items, msg_id, confidence) ==
    LET amounts == ItemAmounts(items)
        item_total == SumAt(amounts, DOMAIN items)
        combo == FirstCombination(Combinations(amounts, PctRange(charge)))
    IN  IF item_total > 0 /\ WithinPct(item_total, charge)
        THEN ReceiptResult(TRUE, items, msg_id, "amazon_shipment", confidence)
        ELSE IF combo = {} THEN NoMatch
        ELSE ReceiptResult(TRUE, SelectIdx(items, combo, 1), msg_id,
                           "amazon_subset_sum", confidence)

\* the items of all receipts, in the order of the dict
RECURSIVE AllItems(_)
AllItems(receipts) ==
    IF receipts = <<>> THEN <<>>
    ELSE Head(receipts).parsed.items \o AllItems(Tail(receipts))

\* receipts is the dict msg_id -> ParsedReceipt in insertion order
_resolve_amazon(txn, receipts) ==
    LET charge == Abs(txn.amount)
        by_shipment == {i \in DOMAIN receipts :
                           /\ receipts[i].parsed.shipment_total > 0
                           /\ WithinPct(receipts[i].parsed.shipment_total, charge)}
        by_order == {i \in DOMAIN receipts :
                        /\ receipts[i].parsed.order_total > 0
                        /\ WithinPct(receipts[i].parsed.order_total, charge)}
        by_items == {i \in DOMAIN receipts :
                        /\ receipts[i].parsed.items # <<>>
                        /\ _subset_sum_match(charge, receipts[i].parsed.items,
                               receipts[i].msg_id, 80) # NoMatch}
        First(S) == CHOOSE i \in S : \A j \in S : i <= j
    IN  IF charge = 0 THEN NoMatch
        ELSE IF by_shipment # {}
        THEN ReceiptResult(TRUE, receipts[First(by_shipment)].parsed.items,
                           receipts[First(by_shipment)].msg_id,
                           "amazon_shipment_total", 90)
        ELSE IF by_order # {}
        THEN ReceiptResult(TRUE, receipts[First(by_order)].parsed.items,
                           receipts[First(by_order)].msg_id,
                           "amazon_order_total", 85)
        ELSE IF by_items # {}
        THEN _subset_sum_match(charge, receipts[First(by_items)].parsed.items,
                               receipts[First(by_items)].msg_id, 80)
        ELSE IF Len(receipts) > 1 /\ AllItems(receipts) # <<>>
        THEN _subset_sum_match(charge, AllItems(receipts), receipts[1].msg_id, 75)
        ELSE NoMatch

(***************************************************************************)
(* One ReceiptLookup instance over a database of three pending             *)
(* transactions.  resolve advances stage by stage: the search and the      *)
(* split into cached and uncached emails, one claude_fn call for each      *)
(* uncached email, the matching.  `calls` is not a field of the class: it  *)
(* counts the claude_fn invocations for each message id.                   *)
(***************************************************************************)
MaxSearches == 2

MaxCalls == 2

MsgIds == {"m1", "m2"}

ReceiptRows ==
    <<RawTransaction("a1", 105, -4597, "APPLE.COM/BILL", "e1"),
      RawTransaction("a1", 105, -10000, "AMAZON.COM*ORDER1", "e2"),
      RawTransaction("a1", 205, -4000, "Costco", "e3")>>

\* what Claude can make of an email: nothing, three subscriptions, two items
\* a dollar short of the Apple charge, a shipment with its total
Parses ==
    {ParsedReceipt(<<>>, 0, 0),
     ParsedReceipt(<<ReceiptItem("subscription", 2299),
                     ReceiptItem("subscription", 999),
                     ReceiptItem("software", 1299)>>, 0, 0),
     ParsedReceipt(<<ReceiptItem("subscription", 2299),
                     ReceiptItem(None, 2200)>>, 0, 0),
     ParsedReceipt(<<ReceiptItem("household", 9000)>>, 0, 10000)}

\* claude_fn raises, or its response parses to a receipt
ClaudeOutcomes == [raised : BOOLEAN, parsed : Parses]

\* search_receipts fails (None), or lists messages; the ids are those of
\* the first five messages whose body could be fetched
GmailOutcomes ==
    [error : BOOLEAN,
     ids : {<<>>, <<"m1">>, <<"m2">>, <<"m1", "m2">>, <<"m2", "m1">>}]

Lookup(stage, has_claude_fn, cache, calls, txn_id, email_bodies, uncached, receipts) ==
    [kind |-> "lookup", stage |-> stage, has_claude_fn |-> has_claude_fn,
     _parse_cache |-> cache, calls |-> calls, txn_id |-> txn_id,
     email_bodies |-> email_bodies, uncached |-> uncached,
     receipts |-> receipts]

LookupIdle(has_claude_fn, cache, calls) ==
    Lookup("idle", has_claude_fn, cache, calls, 0, <<>>, <<>>, <<>>)

\* the month of the first two transactions has cost recorded close to the
\* cap: 247 or 250 categorizations at 2 cents, and none or one receipt parse
InitReceipt ==
    /\ \E u \in {<<247, 0>>, <<247, 1>>, <<250, 0>>} :
           db = increment_api_usage(
                    increment_api_usage(
                        increment_api_usage(
                            insert_transactions_batch(EmptyDb,
                                WithIds(EmptyDb,
                                    [i \in 1..3 |->
                                        Transaction(ReceiptRows[i], 1, "bank",
                                                    "pending")])),
                            1, "claude_categorize", u[1],
                            u[1] * CLAUDE_CATEGORIZE_COST_CENTS),
                        1, "claude_receipt_parse", u[2],
                        u[2] * CLAUDE_RECEIPT_PARSE_COST_CENTS),
                    2, "claude_receipt_parse", 166,
                    166 * CLAUDE_RECEIPT_PARSE_COST_CENTS)
    /\ \E has_claude_fn \in BOOLEAN :
           op = LookupIdle(has_claude_fn, <<>>, [m \in MsgIds |-> 0])
    /\ last = [kind |-> "none"]

Resolved(txn_id, result) ==
    [kind |-> "resolved", txn_id |-> txn_id, result |-> result]

\* resolve, lines 107-148, and _claude_extract_receipts, lines 423-452
ResolveStart ==
    \E txn \in Range(db.transactions), gmail \in GmailOutcomes :
        LET merchant_type == _get_merchant_type(txn)
            month == Month(txn.date)
            d1 == increment_api_usage(db, month, "gmail_search", 1, 0)
            ids == SubSeq(gmail.ids, 1, IF Len(gmail.ids) < 5
                                        THEN Len(gmail.ids) ELSE 5)
            cached == SelectIdx(ids, {i \in DOMAIN ids :
                                         ids[i] \in DOMAIN op._parse_cache}, 1)
            uncached == SelectIdx(ids, {i \in DOMAIN ids :
                                           ids[i] \notin DOMAIN op._parse_cache}, 1)
            receipts == [i \in DOMAIN cached |->
                            [msg_id |-> cached[i],
                             parsed |-> op._parse_cache[cached[i]]]]
        IN  /\ op.kind = "lookup" /\ op.stage = "idle"
            /\ Usage(db, month, "gmail_search").request_count < MaxSearches
            /\ IF merchant_type = None \/ txn.date = 0
               THEN /\ last' = Resolved(txn.id, NoMatch)
                    /\ UNCHANGED <<db, op>>
               ELSE IF gmail.error
               THEN /\ db' = set_receipt_lookup_status(db, txn.id, "error")
                    /\ last' = Resolved(txn.id, NoMatch)
                    /\ UNCHANGED op
               ELSE IF ids = <<>>
               THEN /\ db' = set_receipt_lookup_status(d1, txn.id, "no_email")
                    /\ last' = Resolved(txn.id, NoMatch)
                    /\ UNCHANGED op
               ELSE /\ db' = d1
                    /\ last' = [kind |-> "searched", txn_id |-> txn.id]
                    /\ op' = IF ~op.has_claude_fn
                             THEN Lookup("extract", op.has_claude_fn,
                                         op._parse_cache, op.calls, txn.id,
                                         ids, <<>>, <<>>)
                             ELSE IF uncached = <<>>
                                     \/ get_monthly_cost(d1, month)
                                            >= MONTHLY_BUDGET_CENTS
                             THEN Lookup("extract", op.has_claude_fn,
                                         op._parse_cache, op.calls, txn.id,
                                         ids, <<>>, receipts)
                             ELSE Lookup("extract", op.has_claude_fn,
                                         op._parse_cache, op.calls, txn.id,
                                         ids, uncached, receipts)

\* claude_fn is about to be called: the service, the message, and the cost
\* recorded for the month at that moment
ClaudeCall(service, msg_id, month, cost) ==
    [kind |-> "claude_call", service |-> service, msg_id |-> msg_id,
     month |-> month, cost |-> cost]

\* faulty variant: a failed extraction is not cached
CacheFailure_Forget(cache, msg_id) == cache

\* lines 509-515: the except branch caches an empty receipt
CacheFailure(cache, msg_id) == DictPut(cache, msg_id, ParsedReceipt(<<>>, 0, 0))

\* _claude_extract_receipts, lines 477-515: one turn of the loop over the
\* uncached emails
ExtractOne ==
    \E outcome \in ClaudeOutcomes :
        LET msg_id == Head(op.uncached)
            txn == get_transaction(db, op.txn_id)
            month == Month(txn.date)
        IN  /\ op.kind = "lookup" /\ op.stage = "extract"
            /\ op.uncached # <<>>
            /\ op.calls[msg_id] < MaxCalls
            /\ last' = ClaudeCall("claude_receipt_parse", msg_id, month,
                                  get_monthly_cost(db, month))
            /\ IF outcome.raised
               THEN /\ op' = [op EXCEPT
                                 !.calls[msg_id] = @ + 1,
                                 !._parse_cache = CacheFailure(@, msg_id),
                                 !.uncached = Tail(@)]
                    /\ UNCHANGED db
               ELSE /\ db' = increment_api_usage(db, month,
                                 "claude_receipt_parse", 1,
                                 CLAUDE_RECEIPT_PARSE_COST_CENTS)
                    /\ op' = [op EXCEPT
                                 !.calls[msg_id] = @ + 1,
                                 !._parse_cache = DictPut(@, msg_id, outcome.parsed),
                                 !.uncached = Tail(@),
                                 !.receipts = Append(@,
                                     [msg_id |-> msg_id,
                                      parsed |-> outcome.parsed])]

\* resolve, lines 151-179
ResolveFinish ==
    LET txn == get_transaction(db, op.txn_id)
        month == Month(txn.date)
        merchant_type == _get_merchant_type(txn)
        result == IF merchant_type = "apple"
                  THEN _resolve_apple(txn, AllItems(op.receipts), op.email_bodies)
                  ELSE _resolve_amazon(txn, op.receipts)
        status == IF op.receipts = <<>>
                  THEN IF op.has_claude_fn
                          /\ get_monthly_cost(db, month) >= MONTHLY_BUDGET_CENTS
                       THEN "budget_exceeded" ELSE "no_match"
                  ELSE IF merchant_type = "apple" /\ AllItems(op.receipts) = <<>>
                  THEN "no_match"
                  ELSE IF result.matched THEN "matched" ELSE "no_match"
    IN  /\ op.kind = "lookup" /\ op.stage = "extract"
        /\ op.uncached = <<>>
        /\ db' = set_receipt_lookup_status(db, txn.id, status)
        /\ last' = Resolved(txn.id, IF status = "matched" THEN result ELSE NoMatch)
        /\ op' = LookupIdle(op.has_claude_fn, op._parse_cache, op.calls)

\* the sum of the amounts of the allocations of a transaction
AllocationSum(d, txn_id) ==
    LET allocs == get_allocations_by_transaction(d, txn_id)
    IN  SumAt([i \in DOMAIN allocs |-> allocs[i].amount], DOMAIN allocs)

\* apply_result, lines 181-235, on the result resolve has just returned
ApplyReceiptResult ==
    LET txn == get_transaction(db, last.txn_id)
    IN  /\ op.kind = "lookup" /\ op.stage = "idle"
        /\ last.kind = "resolved" /\ last.result.matched
        /\ Len(db.receipt_matches) < MaxReceiptMatches
        /\ db' = apply_result(db, txn,
                     [receipt_result |-> last.result,
                      confidence |-> last.result.confidence])
        /\ last' = [kind |-> "applied", txn_id |-> txn.id,
                    result |-> last.result,
                    had_allocations |->
                        get_allocations_by_transaction(db, txn.id) # <<>>]
        /\ UNCHANGED op

\* claude_ai.categorize_single, lines 72-116; a category of None stands for
\* a response without a usable suggestion
CategorizeSingle ==
    \E txn \in Range(db.transactions), raised \in BOOLEAN,
       category_id \in {None, "groceries"} :
        LET month == Month(txn.date)
            cost == get_monthly_cost(db, month)
        IN  /\ op.kind = "lookup" /\ op.stage = "idle"
            /\ op.has_claude_fn
            /\ IF txn.date = 0 \/ cost >= MONTHLY_BUDGET_CENTS
               THEN /\ last' = [kind |-> "categorize_single",
                                txn_id |-> txn.id, category_id |-> None]
                    /\ UNCHANGED db
               ELSE /\ last' = ClaudeCall("claude_categorize", None, month, cost)
                    /\ db' = IF raised THEN db
                             ELSE increment_api_usage(db, month,
                                      "claude_categorize", 1,
                                      CLAUDE_CATEGORIZE_COST_CENTS)
            /\ UNCHANGED op

NextReceipt ==
    \/ ResolveStart
    \/ ExtractOne
    \/ ResolveFinish
    \/ ApplyReceiptResult
    \/ CategorizeSingle

SpecReceipt == InitReceipt /\ [][NextReceipt]_vars

(***************************************************************************)
(* Claims about the receipt lookup and the cost cap                        *)
(***************************************************************************)
\* C14: over any sequence of resolve calls on one ReceiptLookup, claude_fn is
\* invoked at most once for each message id, also when the first attempt
\* for the message raised or gave a receipt without items
C14_OneExtractionPerMessage ==
    op.kind = "lookup" => \A m \in MsgIds : op.calls[m] <= 1

\* a later resolve finds a message in its search whose one extraction gave
\* nothing, and serves it from the cache
C14_Witness ==
    /\ op.kind = "lookup" /\ op.stage = "extract"
    /\ last.kind = "searched"
    /\ \E m \in Range(op.email_bodies) :
           /\ op.calls[m] = 1
           /\ m \notin Range(op.uncached)
           /\ m \in DOMAIN op._parse_cache
           /\ op._parse_cache[m].items = <<>>

\* C15: no receipt-extraction call and no AI-categorization call is issued
\* while the cost recorded for the month of the transaction's date is at or
\* above the cap of 500 cents
C15_AsStated ==
    last.kind = "claude_call" => last.cost < MONTHLY_BUDGET_CENTS

\* C16: when a receipt match is applied to a transaction, the allocations
\* created for it sum to the amount of the transaction, sign included
C16_AsStated ==
    last.kind = "applied" /\ ~last.had_allocations =>
        AllocationSum(db, last.txn_id) = get_transaction(db, last.txn_id).amount

\* C17: when the transfer-link attempt at the end of apply_categorization
\* fails, the function still returns, and the transaction keeps the
\* allocation and the `categorized` status it was given
C17_LinkFailureKeepsCategorization ==
    [][op.kind = "handler" /\ op.pc = "link"
          /\ last'.kind = "link_attempt" /\ last'.raised =>
              /\ op' = Idle
              /\ get_transaction(db', op.txn.id).status = "categorized"
              /\ get_transaction(db', op.txn.id).categorization_method
                     \in {"transfer", "transfer_inferred"}
              /\ \E a \in Range(get_allocations_by_transaction(db', op.txn.id)) :
                     a.amount = op.txn.amount]_vars

\* the attempt failed although a counterpart was there to link
C17_Witness ==
    /\ last.kind = "link_attempt" /\ last.raised
    /\ op = Idle
    /\ find_transfer_candidates(db, get_transaction(db, last.txn_id)) # <<>>
    /\ get_transfer_by_transaction(db, last.txn_id) = NoRow
    /\ get_transaction(db, last.txn_id).status = "categorized"

(***************************************************************************)
(* Claims about failures during an import (SpecImport)                     *)
(***************************************************************************)
\* the rows of the imports other than import_id: the import rows, their
\* transactions and the allocations of these
OtherImports(d, import_id) ==
    [imports |-> {i \in Range(d.imports) : i.id # import_id},
     transactions |-> {t \in Range(d.transactions) : t.import_id # import_id},
     allocations |->
         {<<k, d.allocations[k]>> : k \in
             {j \in DOMAIN d.allocations :
                 \E t \in Range(d.transactions) :
                     /\ t.id = d.allocations[j].transaction_id
                     /\ t.import_id # import_id}}]

\* C18: when parser detection, parsing, dedup or categorization raises
\* during an import, process_file returns a result of status `error` with
\* the message, the import row ends with status `error` and that message,
\* and no step of the import has changed a row of an earlier import
C18_FailedImportRecorded ==
    [][op.kind = "import" =>
          /\ OtherImports(db', op.import_id) = OtherImports(db, op.import_id)
          /\ op' = Idle /\ last'.status = "error" =>
                /\ last'.error_message
                       \in {"detect_parser", "parse", "process_batch", "categorize"}
                /\ \E i \in Range(db'.imports) :
                       /\ i.id = op.import_id
                       /\ i.status = "error"
                       /\ i.error_message = last'.error_message
                /\ db'.transactions = db.transactions
                /\ db'.allocations = db.allocations]_vars

\* the categorization of a later file raised after its rows were inserted;
\* an earlier file is completed and has categorized transactions
C18_Witness ==
    /\ op = Idle
    /\ last.kind = "import" /\ last.status = "error"
    /\ last.error_message = "categorize"
    /\ \E i, j \in Range(db.imports) :
           /\ i.status = "completed" /\ i.id < j.id
           /\ j.status = "error" /\ j.error_message = "categorize"
           /\ \E t \in Range(db.transactions) :
                  t.import_id = i.id /\ t.status = "categorized"
           /\ \E t \in Range(db.transactions) : t.import_id = j.id

(***************************************************************************)
(* Claims about the status of a transaction (Spec)                         *)
(***************************************************************************)
\* the status changes the specification lists
ListedChanges ==
    {<<"pending", "categorized">>, <<"pending", "flagged">>,
     <<"pending", "reviewed">>, <<"flagged", "categorized">>,
     <<"flagged", "reviewed">>}

\* the step is made by one of the spreadsheet overrides that write a status
OverrideStep ==
    \/ /\ op = Idle /\ op' = Idle /\ last'.kind = "returned"
       /\ last'.fn \in {"_apply_reviewed_flag", "_apply_needs_split"}
    \/ /\ op.kind = "handler" /\ op.fn = "_create_allocation_from_override"

\* C19 as stated: over categorization, reprocessing and overrides the only
\* status changes are pending to categorized, flagged or reviewed, and
\* flagged to categorized or reviewed
C19_AsStated ==
    [][\A i \in DOMAIN db.transactions :
          db'.transactions[i].status # db.transactions[i].status =>
              <<db.transactions[i].status, db'.transactions[i].status>>
                  \in ListedChanges]_vars

\* C19: no status change ends in `pending`; categorization and reprocessing
\* make the listed changes only; a change outside the list is made by an
\* override: needs-split flags a categorized or reviewed transaction, the
\* reviewed flag marks a categorized one, the category override categorizes
\* a reviewed one
C19_StatusChanges ==
    [][\A i \in DOMAIN db.transactions :
          LET from == db.transactions[i].status
              to == db'.transactions[i].status
          IN  from # to =>
                  /\ to \in {"categorized", "flagged", "reviewed"}
                  /\ <<from, to>> \notin ListedChanges =>
                         /\ OverrideStep
                         /\ <<from, to>> \in
                                {<<"categorized", "flagged">>,
                                 <<"reviewed", "flagged">>,
                                 <<"categorized", "reviewed">>,
                                 <<"reviewed", "categorized">>}
                         /\ to = "flagged" => last'.fn = "_apply_needs_split"
                         /\ to = "reviewed" => last'.fn = "_apply_reviewed_flag"]_vars

\* the reviewed flag has just marked a transaction that a matcher had
\* categorized
C19_Witness ==
    /\ op = Idle
    /\ last.kind = "returned" /\ last.fn = "_apply_reviewed_flag"
    /\ \E t \in Range(db.transactions) :
           /\ t.status = "reviewed"
           /\ t.categorization_method = "merchant_auto"
           /\ get_allocations_by_transaction(db, t.id) # <<>>

(***************************************************************************)
(* categorize/historical.py: match_historical, over the rows of            *)
(* Repository.get_historical_category_counts.  Weights are doubled so that *)
(* the 1.5 of a user-corrected allocation is the integer 3.                *)
(***************************************************************************)
EXACT_MIN_COUNT == 2

EXACT_CONFIDENCE == 95

DESC_MIN_COUNT == 3

\* 0.80, in percent
DESC_MIN_AGREEMENT == 80

DESC_CONFIDENCE == 85

\* 1.5, doubled
USER_WEIGHT == 3

\* 0.01, in cents
AMOUNT_TOLERANCE == 1

\* abs(r["amount"] - amount) <= AMOUNT_TOLERANCE on the doubles of the two
\* dollar amounts.  Amounts a cent apart are decided by the rounding of the
\* subtraction: abs(-40.01 - -40.0) is 0.00999999999999801 and passes,
\* abs(-100.01 - -100.0) is 0.010000000000005116 and does not; the test is
\* tabulated for the amounts the model uses.
AmountClose(a, b) ==
    IF Abs(a - b) # AMOUNT_TOLERANCE THEN a = b
    ELSE {a, b} # {-10001, -10000}

\* the join of categorized transactions of the description with their
\* allocations, as pairs <<position of the allocation, transaction>>
HistoricalJoin(d, normalized_description) ==
    {<<k, t>> \in (DOMAIN d.allocations) \X Range(d.transactions) :
        /\ d.allocations[k].transaction_id = t.id
        /\ t.normalized_description = normalized_description
        /\ t.status = "categorized"}

\* GROUP BY a.category_id, t.amount with COUNT(*) and the count of the
\* allocations of source 'user'
get_historical_category_counts(d, normalized_description) ==
    LET join == HistoricalJoin(d, normalized_description)
        Group(c, a) == {j \in join : d.allocations[j[1]].category_id = c
                                        /\ j[2].amount = a}
    IN  {[category_id |-> d.allocations[j[1]].category_id,
          amount |-> j[2].amount,
          cnt |-> Cardinality(Group(d.allocations[j[1]].category_id,
                                    j[2].amount)),
          user_cnt |-> Cardinality(
              {g \in Group(d.allocations[j[1]].category_id, j[2].amount) :
                  d.allocations[g[1]].source = "user"})] : j \in join}

\* sum(r["cnt"] for r in rows)
RECURSIVE SumCount(_)
SumCount(rows) ==
    IF rows = {} THEN 0
    ELSE LET r == CHOOSE x \in rows : TRUE
         IN  r.cnt + SumCount(rows \ {r})

\* sum(r["cnt"] + r["user_cnt"] * (USER_WEIGHT - 1) for r in rows), doubled
RECURSIVE SumWeight(_)
SumWeight(rows) ==
    IF rows = {} THEN 0
    ELSE LET r == CHOOSE x \in rows : TRUE
         IN  2 * r.cnt + r.user_cnt * (USER_WEIGHT - 2) + SumWeight(rows \ {r})

\* agreement_pct is kept in whole percent
HistoricalMatch(category_id, confidence, match_level, match_count, agreement_pct) ==
    [category_id |-> category_id, confidence |-> confidence,
     match_level |-> match_level, match_count |-> match_count,
     agreement_pct |-> agreement_pct]

\* stands for the None that match_historical returns
NoHistoricalMatch == HistoricalMatch(None, 0, None, 0, 0)

\* fault-seeded variant: the share of the leading category has to exceed
\* DESC_MIN_AGREEMENT
DescriptionLevel_StrictShare(rows) ==
    LET total_weighted == SumWeight(rows)
        total_count == SumCount(rows)
        cats == {r.category_id : r \in rows}
        Weight(c) == SumWeight({r \in rows : r.category_id = c})
        best_cat == CHOOSE c \in cats : \A o \in cats : Weight(c) >= Weight(o)
    IN  IF total_count < DESC_MIN_COUNT THEN NoHistoricalMatch
        ELSE IF total_weighted > 0
                /\ 100 * Weight(best_cat) > DESC_MIN_AGREEMENT * total_weighted
        THEN HistoricalMatch(best_cat, DESC_CONFIDENCE, "description",
                             total_count,
                             (100 * Weight(best_cat)) \div total_weighted)
        ELSE NoHistoricalMatch

\* level 2, lines 83-115
DescriptionLevel(rows) ==
    LET total_weighted == SumWeight(rows)
        total_count == SumCount(rows)
        cats == {r.category_id : r \in rows}
        Weight(c) == SumWeight({r \in rows : r.category_id = c})
        best_cat == CHOOSE c \in cats : \A o \in cats : Weight(c) >= Weight(o)
    IN  IF total_count < DESC_MIN_COUNT THEN NoHistoricalMatch
        ELSE IF total_weighted > 0
                /\ 100 * Weight(best_cat) >= DESC_MIN_AGREEMENT * total_weighted
        THEN HistoricalMatch(best_cat, DESC_CONFIDENCE, "description",
                             total_count,
                             (100 * Weight(best_cat)) \div total_weighted)
        ELSE NoHistoricalMatch

match_historical(d, normalized_description, amount, has_repo) ==
    LET rows == get_historical_category_counts(d, normalized_description)
        exact_rows == {r \in rows : AmountClose(r.amount, amount)}
        total == SumCount(exact_rows)
        categories == {r.category_id : r \in exact_rows}
    IN  IF ~Truthy(normalized_description) \/ ~has_repo THEN NoHistoricalMatch
        ELSE IF rows = {} THEN NoHistoricalMatch
        ELSE IF /\ exact_rows # {}
                /\ total >= EXACT_MIN_COUNT
                /\ Cardinality(categories) = 1
        THEN HistoricalMatch(CHOOSE c \in categories : TRUE, EXACT_CONFIDENCE,
                             "exact", total, 100)
        ELSE DescriptionLevel(rows)

(***************************************************************************)
(* Histories of categorized transactions are built row by row, as imports  *)
(* and overrides leave them, and match_historical is called on them.       *)
(***************************************************************************)
MaxHistory == 4

\* a past transaction: amount, description, status and the allocations
\* (category and source) it has
Past(amount, raw_description, status, allocs) ==
    [amount |-> amount, raw_description |-> raw_description,
     status |-> status, allocs |-> allocs]

Pasts ==
    {Past(-10000, "Costco", "categorized", <<<<"groceries", "auto">>>>),
     Past(-10000, "Costco", "categorized", <<<<"household", "auto">>>>),
     Past(-10001, "Costco", "categorized", <<<<"household", "auto">>>>),
     Past(-4001, "Costco", "categorized", <<<<"groceries", "user">>>>),
     Past(-10000, "Costco", "categorized",
          <<<<"groceries", "gmail_receipt">>, <<"groceries", "gmail_receipt">>>>),
     Past(-10000, "Costco", "flagged", <<<<"household", "auto">>>>),
     Past(-10000, "Amazon", "categorized", <<<<"household", "auto">>>>)}

InitHistorical ==
    /\ db = EmptyDb
    /\ op = Idle
    /\ last = [kind |-> "none"]

RECURSIVE InsertAllocations(_, _, _, _)
InsertAllocations(d, txn, allocs, share) ==
    IF allocs = <<>> THEN d
    ELSE InsertAllocations(
             insert_allocation(d,
                 Allocation(txn.id, Head(allocs)[1], share, Head(allocs)[2],
                            100)),
             txn, Tail(allocs), share)

\* a transaction is imported and ends with this status and allocations
AddHistory ==
    \E p \in Pasts :
        LET txn == [Transaction(
                        RawTransaction("a1", Len(db.transactions) + 1, p.amount,
                                       p.raw_description, None),
                        1, "bank", p.status)
                    EXCEPT !.id = Len(db.transactions) + 1]
        IN  /\ Len(db.transactions) < MaxHistory
            /\ db' = InsertAllocations(insert_transactions_batch(db, <<txn>>),
                                       txn, p.allocs, p.amount \div Len(p.allocs))
            /\ last' = [kind |-> "none"]
            /\ UNCHANGED op

\* step 5 of the pipeline asks for the description and amount of a
\* transaction
MatchHistorical ==
    \E normalized_description \in {"COSTCO", None},
       amount \in {-10000, -4000} :
        /\ Truthy(normalized_description) \/ amount = -10000
        /\ last' = [kind |-> "historical",
                    normalized_description |-> normalized_description,
                    amount |-> amount,
                    result |-> match_historical(db, normalized_description,
                                                amount, TRUE)]
        /\ UNCHANGED <<db, op>>

NextHistorical ==
    \/ AddHistory
    \/ MatchHistorical

SpecHistorical == InitHistorical /\ [][NextHistorical]_vars

\* the categorized transactions of the description whose amount is within
\* one cent of the amount
PriorWithin(d, normalized_description, amount) ==
    {t \in Range(d.transactions) :
        /\ t.normalized_description = normalized_description
        /\ t.status = "categorized"
        /\ Abs(t.amount - amount) <= 1}

\* the categories of the allocations of a set of transactions
CategoriesOf(d, txns) ==
    {a.category_id : a \in {x \in Range(d.allocations) :
                               x.transaction_id \in {t.id : t \in txns}}}

\* C20: match_historical returns an exact-level match only if at least two
\* prior categorized transactions of the description have an amount within
\* one cent of the amount and all of them carry the same category; otherwise
\* the description level decides
C20_AsStated ==
    last.kind = "historical" /\ Truthy(last.normalized_description) =>
        LET prior == PriorWithin(db, last.normalized_description, last.amount)
            agreed == Cardinality(prior) >= 2
                          /\ Cardinality(CategoriesOf(db, prior)) = 1
        IN  /\ last.result.match_level = "exact" =>
                   /\ agreed
                   /\ last.result.confidence = EXACT_CONFIDENCE
            /\ ~agreed =>
                   last.result = DescriptionLevel(
                       get_historical_category_counts(db,
                           last.normalized_description))

\* the votes of a description: the positions of the allocations that belong
\* to a categorized transaction with this normalized description
Votes(d, normalized_description) ==
    {k \in DOMAIN d.allocations :
        \E t \in Range(d.transactions) :
            /\ t.id = d.allocations[k].transaction_id
            /\ t.normalized_description = normalized_description
            /\ t.status = "categorized"}

\* twice the weight of a set of votes: 3 for a user-corrected allocation,
\* 2 for any other
VoteWeight(d, votes) ==
    2 * Cardinality(votes)
        + Cardinality({k \in votes : d.allocations[k].source = "user"})

C21_WitnessBelow ==
    /\ last.kind = "historical"
    /\ last.amount = -4000
    /\ last.result = NoHistoricalMatch
    /\ Cardinality(Votes(db, "COSTCO")) = 5
    /\ Cardinality({k \in Votes(db, "COSTCO") :
                       db.allocations[k].category_id = "groceries"}) = 3

\* the sum of the amounts of a set of transactions
RECURSIVE SumAmounts(_)
SumAmounts(rows) ==
    IF rows = {} THEN 0
    ELSE LET r == CHOOSE x \in rows : TRUE
         IN  r.amount + SumAmounts(rows \ {r})

\* what the split-sum tier must have found to reject the row raw against the
\* existing transactions with the ids in split_ids
SplitSumJustified(raw, split_ids) ==
    LET splits == {t \in Range(db.transactions) : t.id \in split_ids}
    IN  /\ Cardinality(split_ids) >= 2
        /\ Cardinality(splits) = Cardinality(split_ids)
        /\ \A c \in splits :
               /\ c.account_id = raw.account_id
               /\ c.date = raw.date
               /\ (c.external_id = None) = Truthy(raw.external_id)
               /\ _descriptions_related(raw.raw_description,
                                        c.raw_description)
        /\ Abs(SumAmounts(splits) - raw.amount) <= 1

\* C22: a row is rejected at the split-sum tier, by deduplicate or inside
\* process_batch, only when at least two existing rows of the opposite source
\* on its account and date, each with a description related to its own, have
\* amounts that sum to its amount within one cent; one amount alone is never
\* a match, and -99.99 with -16.99 match -116.98 at the positions 0 and 1
C22_SplitSumNeedsTwoRows ==
    /\ (last.kind = "dedup" /\ last.result.tier = "split_sum") =>
           /\ last.result.status = "duplicate"
           /\ SplitSumJustified(last.raw, Range(last.result.matched_splits))
    /\ (/\ op.kind = "batch"
        /\ op.st.decision.status = "duplicate"
        /\ op.st.decision.tier = "split_sum") =>
           SplitSumJustified(op.st.decision.raw, op.st.decision.matched_splits)
    /\ _find_subset_sum(<<-10000>>, -10000) = {}
    /\ _find_subset_sum(<<-9999, -1699>>, -11698) = {1, 2}

\* a bank row is rejected against two budget-app splits while a third row
\* of the day, with an unrelated description, is left out
C22_Witness ==
    /\ last.kind = "dedup"
    /\ last.result.tier = "split_sum"
    /\ Cardinality(Range(last.result.matched_splits)) = 2
    /\ \E c \in Range(db.transactions) :
           /\ c.account_id = last.raw.account_id
           /\ c.date = last.raw.date
           /\ ~_descriptions_related(last.raw.raw_description, c.raw_description)

\* the other transaction of a transfer row
Counterpart(xfer, txn_id) ==
    IF xfer.from_transaction_id = txn_id THEN xfer.to_transaction_id
    ELSE xfer.from_transaction_id

\* a candidate in the sense of the specification: another account, within
\* one cent of the opposite amount, within five days, not in a transfer
Eligible(d, txn, o) ==
    /\ o.account_id # txn.account_id
    /\ Abs(o.amount + txn.amount) <= 1
    /\ Abs(o.date - txn.date) <= 5
    /\ o.id \notin Linked(d)

\* the link step of apply_categorization has inserted a transfer
LinkCreated ==
    /\ op.kind = "handler" /\ op.pc = "link"
    /\ Len(db'.transfers) = Len(db.transfers) + 1

\* C23: whenever apply_categorization creates a transfer link, the
\* counterpart is on a different account, within one cent of the opposite
\* amount, within five days and in no transfer, and no other such
\* transaction is closer in date
C23_AsStated ==
    [][LinkCreated =>
          LET c == get_transaction(db,
                       Counterpart(db'.transfers[Len(db'.transfers)], op.txn.id))
          IN  /\ c # NoRow
              /\ Eligible(db, op.txn, c)
              /\ \A o \in Range(db.transactions) :
                     Eligible(db, op.txn, o) =>
                         Abs(c.date - op.txn.date) <= Abs(o.date - op.txn.date)
      ]_vars

\* what holds of every link created: the counterpart is such a transaction,
\* and none that the query accepts is closer in date
C23_CounterpartAmongReturned ==
    [][LinkCreated =>
          LET c == get_transaction(db,
                       Counterpart(db'.transfers[Len(db'.transfers)], op.txn.id))
          IN  /\ c # NoRow
              /\ Eligible(db, op.txn, c)
              /\ \A o \in Range(db.transactions) :
                     (Eligible(db, op.txn, o)
                          /\ AmountOpposite(o.amount, op.txn.amount)) =>
                         Abs(c.date - op.txn.date) <= Abs(o.date - op.txn.date)
      ]_vars

\* a category the business filter lets through, or its default category
Permitted(category_id) ==
    \/ _is_compatible(category_id, BusinessFilter)
    \/ category_id = BusinessFilter.default_category

\* C24: no allocation written for a transaction on an account with a
\* category filter carries a category that is neither permitted by the
\* filter nor the default category of the account, the split allocations of
\* a receipt match included
C24_AsStated ==
    \A a \in Range(db.allocations) : Permitted(a.category_id)

\* the same for the split allocations of receipt matches alone
C24_ReceiptSplitsPermitted ==
    \A a \in Range(db.allocations) :
        a.source = "gmail_receipt" => Permitted(a.category_id)

\* what holds: the single allocation apply_categorization writes for a
\* result of a matcher whose category the pipeline passes through the filter
C24_FilteredMethodsPermitted ==
    [][(/\ op = Idle
        /\ op'.kind = "handler"
        /\ op'.fn = "apply_categorization"
        /\ op'.result.method \in FilteredSteps)
           => /\ Len(db'.allocations) = Len(db.allocations) + 1
              /\ Permitted(db'.allocations[Len(db'.allocations)].category_id)
      ]_vars

(***************************************************************************)
(* categorize/claude_ai.py: categorize_single and _parse_response, and the *)
(* AI step of categorize_transaction that calls them.  A reply of          *)
(* claude_fn is described by what json.loads makes of its text.            *)
(***************************************************************************)
\* the ids _get_valid_category_ids collects from config.categories
ValidCategoryIds == {"biz-saas", "biz-other", "earnings", "coffee-d"}

\* what claude_fn does: it raises, or returns text that is not JSON, JSON
\* that is a list or a number, or a JSON object; an object carries the
\* category_id and confidence fields ("<missing>" when the key is absent)
Replies ==
    {[raises |-> TRUE, fenced |-> FALSE, json |-> "none",
      category_id |-> "<missing>", confidence |-> "<missing>"]}
    \cup [raises : {FALSE}, fenced : BOOLEAN,
          json : {"malformed", "list", "number"},
          category_id : {"<missing>"}, confidence : {"<missing>"}]
    \cup [raises : {FALSE}, fenced : BOOLEAN, json : {"object"},
          category_id : {"<missing>", "", "uncategorized", "pets",
                         "coffee-d", "biz-saas"},
          confidence : {"<missing>", "0.9", "1.5", "high"}]

\* max(0.0, min(1.0, float(confidence))) in percent; 0.5 when float() fails
\* and 0.0 when the key is absent
ClampConfidence(confidence) ==
    CASE confidence = "0.9" -> 90
      [] confidence = "1.5" -> 100
      [] confidence = "high" -> 50
      [] OTHER -> 0

ClaudeCategorizationResult(category_id, confidence) ==
    [category_id |-> category_id, confidence |-> confidence]

\* stands for the None of a reply without a usable suggestion
NoSuggestion == ClaudeCategorizationResult(None, 0)

\* the outcome of a block of code: the value it returns, or an exception
Returns(value) == [raised |-> FALSE, value |-> value]

Raises == [raised |-> TRUE, value |-> NoSuggestion]

\* fault-seeded variant: a category id that the configuration does not have
\* is accepted
_parse_response_AnyCategory(response) ==
    LET category_id == IF response.category_id = "<missing>" THEN ""
                       ELSE response.category_id
    IN  IF response.json = "malformed" THEN Returns(NoSuggestion)
        ELSE IF response.json # "object" THEN Returns(NoSuggestion)
        ELSE IF category_id = "" \/ category_id = "uncategorized"
        THEN Returns(NoSuggestion)
        ELSE Returns(ClaudeCategorizationResult(category_id,
                         ClampConfidence(response.confidence)))

\* lines 124-169; the fences are stripped before json.loads, so a fenced
\* reply parses as the reply inside
_parse_response(response) ==
    LET category_id == IF response.category_id = "<missing>" THEN ""
                       ELSE response.category_id
    IN  IF response.json = "malformed" THEN Returns(NoSuggestion)
        ELSE IF response.json # "object" THEN Returns(NoSuggestion)
        ELSE IF category_id = "" \/ category_id = "uncategorized"
        THEN Returns(NoSuggestion)
        ELSE IF category_id \notin ValidCategoryIds THEN Returns(NoSuggestion)
        ELSE Returns(ClaudeCategorizationResult(category_id,
                         ClampConfidence(response.confidence)))

\* fault-seeded variant: no except clause around the call
Guarded_Unguarded(outcome) == outcome

\* lines 108-121: try ... except Exception: return None
Guarded(outcome) == IF outcome.raised THEN Returns(NoSuggestion) ELSE outcome

\* categorize_single: the database after the call, what the call returned
\* or raised, and whether claude_fn was called
categorize_single(d, txn, reply) ==
    LET month == Month(txn.date)
        current_cost == get_monthly_cost(d, month)
        used == increment_api_usage(d, month, "claude_categorize", 1,
                                    CLAUDE_CATEGORIZE_COST_CENTS)
    IN  IF txn.date = 0
        THEN [db |-> d, outcome |-> Returns(NoSuggestion), called |-> FALSE]
        ELSE IF current_cost >= MONTHLY_BUDGET_CENTS
        THEN [db |-> d, outcome |-> Returns(NoSuggestion), called |-> FALSE]
        ELSE IF reply.raises
        THEN [db |-> d, outcome |-> Guarded(Raises), called |-> TRUE]
        ELSE [db |-> used, outcome |-> Guarded(_parse_response(reply)),
              called |-> TRUE]

\* calls of claude_fn in one run
MaxAiCalls == 2

\* the transaction the AI step is asked about, of January
AiTransaction ==
    [Transaction(RawTransaction("a1", 105, -2500, "Costco", None), 1, "bank",
                 "pending") EXCEPT !.id = 1]

\* what the steps before the AI step can find
EarlierFounds == {<<>>, [s \in {"merchant_high"} |-> [category_id |-> "earnings"]]}

InitAi ==
    /\ \E requests \in {0, 249} :
           db = increment_api_usage(
                    insert_transactions_batch(EmptyDb, <<AiTransaction>>),
                    1, "claude_categorize", requests,
                    requests * CLAUDE_CATEGORIZE_COST_CENTS)
    /\ op = [kind |-> "ai", calls |-> 0]
    /\ last = [kind |-> "none"]

\* categorize_transaction with claude_fn and a repository: the steps before
\* the AI step, and, when none of them matched, categorize_single; the AI
\* step has a match when categorize_single returned a result
CategorizeWithAi ==
    \E found \in EarlierFounds, cat_filter \in Filters, reply \in Replies :
        LET env == [BaseEnv EXCEPT !.found = found, !.cat_filter = cat_filter,
                                   !.has_receipt_lookup = FALSE,
                                   !.has_claude_fn = TRUE]
            before == categorize_transaction([env EXCEPT !.has_claude_fn = FALSE])
            asked == before.method = "manual_review"
            ai == categorize_single(db, AiTransaction, reply)
            suggestion == ai.outcome.value
            with_ai == IF suggestion = NoSuggestion THEN env
                       ELSE [env EXCEPT !.found =
                                [s \in {"claude_ai"} |->
                                    [category_id |-> suggestion.category_id]]]
        IN  /\ op.kind = "ai"
            /\ op.calls < MaxAiCalls
            /\ op' = [op EXCEPT !.calls = IF asked /\ ai.called
                                           THEN @ + 1 ELSE @]
            /\ db' = IF asked THEN ai.db ELSE db
            /\ last' = [kind |-> "categorize_with_ai", reply |-> reply,
                        asked |-> asked,
                        called |-> asked /\ ai.called,
                        raised |-> asked /\ ai.outcome.raised,
                        suggestion |-> IF asked THEN suggestion
                                       ELSE NoSuggestion,
                        result |-> IF asked /\ ~ai.outcome.raised
                                   THEN categorize_transaction(with_ai)
                                   ELSE before]

NextAi == CategorizeWithAi

SpecAi == InitAi /\ [][NextAi]_vars

\* the replies the claim lists: claude_fn raised, or its text is not JSON,
\* is JSON but no object, or names a category the configuration lacks
Unusable(reply) ==
    \/ reply.raises
    \/ reply.json \in {"malformed", "list", "number"}
    \/ reply.json = "object"
           /\ reply.category_id \notin ValidCategoryIds \cup {"<missing>"}

\* C25: when the AI call raises or its reply is malformed JSON, JSON that is
\* no object, or names a category id outside the configured set, the AI step
\* yields no result and raises nothing, and categorize_transaction returns
\* manual review
C25_UnusableReplyIsNoAnswer ==
    (/\ last.kind = "categorize_with_ai"
     /\ last.called
     /\ Unusable(last.reply)) =>
        /\ ~last.raised
        /\ last.suggestion = NoSuggestion
        /\ last.result.method = "manual_review"
        /\ last.result.confidence = 0
        /\ last.result.category_id = BaseEnv.fallback

\* claude_fn was called, answered with an object that names a category the
\* configuration does not have, and the transaction goes to manual review
C25_Witness ==
    /\ last.kind = "categorize_with_ai"
    /\ last.called
    /\ last.reply.json = "object"
    /\ last.reply.category_id = "pets"
    /\ last.result.method = "manual_review"
    /\ Usage(db, 1, "claude_categorize").request_count = 1

\* categorization of the pending transaction of the lifecycle has come to its
\* end without an exception: apply_categorization or apply_result returned
\* at once, or after its last write
CompletedOnPending ==
    /\ op' = Idle
    /\ \/ /\ op.kind = "handler"
          /\ op.txn.status = "pending"
          /\ last'.kind \in {"returned", "link_attempt"}
       \/ /\ op = Idle
          /\ db.transactions[1].status = "pending"
          /\ last # last'
          /\ last'.kind = "returned"
          /\ last'.fn \in {"apply_categorization", "apply_result"}

\* C26: when categorize_transaction and apply_categorization complete without
\* raising for a pending transaction, the transaction is categorized with at
\* least one allocation, or flagged by manual review; it is never left
\* pending
C26_AsStated ==
    [][CompletedOnPending =>
          LET t == db'.transactions[1]
          IN  \/ /\ t.status = "categorized"
                 /\ get_allocations_by_transaction(db', t.id) # <<>>
              \/ /\ t.status = "flagged"
                 /\ t.categorization_method = "manual_review"
      ]_vars

\* what holds: a result other than a receipt match leaves the transaction
\* categorized or flagged, with an allocation
C26_GenericResultSetsStatus ==
    [][(CompletedOnPending /\ op.kind = "handler"
            /\ op.fn = "apply_categorization") =>
          LET t == db'.transactions[1]
          IN  /\ t.status \in {"categorized", "flagged"}
              /\ (t.status = "flagged") = (op.result.method = "manual_review")
              /\ get_allocations_by_transaction(db', t.id) # <<>>
      ]_vars

(***************************************************************************)
(* Specification of a repeated import: process_batch is called on a list   *)
(* of rows and then again on the same list under a new import id, against  *)
(* a database that an earlier batch filled.                                *)
(***************************************************************************)
MaxRerun == 2

\* the rows of the earlier batch: budget-app rows without external id
SeedRows ==
    {RawTransaction("a1", 1, -10000, "Amazon", None),
     RawTransaction("a1", 1, -10000, "AMAZON.COM*ORDER1", None),
     RawTransaction("a1", 1, -6000, "Amazon", None),
     RawTransaction("a1", 1, -4000, "Amazon", None)}

\* the rows of the list that is processed twice
RerunRows ==
    {RawTransaction("a1", 1, -10000, "AMAZON.COM*ORDER1", "e1"),
     RawTransaction("a1", 1, -10000, "AMAZON.COM*ORDER1", "e2"),
     RawTransaction("a1", 1, -10000, "AMAZON.COM*ORDER2", None),
     RawTransaction("a1", 1, -10000, "Amazon", None),
     RawTransaction("a1", 1, -6000, "Amazon", None),
     RawTransaction("a1", 1, -4000, "Costco", None)}

\* the lists of at most n rows of a set
Lists(S, n) == UNION {[1..k -> S] : k \in 0..n}

\* the counts of a BatchResult
Counts(r) ==
    [new_count |-> r.new_count, duplicate_count |-> r.duplicate_count,
     flagged_count |-> r.flagged_count]

InitRerun ==
    /\ \E seed \in Lists(SeedRows, 2) :
           db = process_batch([EmptyDb EXCEPT !.imports = <<Import(1, "h0")>>],
                              seed, 1, "budget_app").db
    /\ op = [kind |-> "rerun", runs |-> 0, rows |-> <<>>, first |-> Counts(
                 [new_count |-> 0, duplicate_count |-> 0, flagged_count |-> 0])]
    /\ last = [kind |-> "none"]

\* process_batch(raw_txns, import 2)
FirstRun ==
    \E raw_txns \in Lists(RerunRows, MaxRerun) :
        LET r == process_batch(db, raw_txns, 2, "bank")
        IN  /\ op.kind = "rerun" /\ op.runs = 0
            /\ db' = r.db
            /\ op' = [op EXCEPT !.runs = 1, !.rows = raw_txns,
                                !.first = Counts(r)]
            /\ last' = [kind |-> "batch_result", counts |-> Counts(r)]

\* process_batch(raw_txns, import 3) on the same list
SecondRun ==
    LET r == process_batch(db, op.rows, 3, "bank")
    IN  /\ op.kind = "rerun" /\ op.runs = 1
        /\ db' = r.db
        /\ op' = [op EXCEPT !.runs = 2]
        /\ last' = [kind |-> "batch_result", counts |-> Counts(r)]

NextRerun == FirstRun \/ SecondRun

SpecRerun == InitRerun /\ [][NextRerun]_vars

LikeTransfer(raw_description) ==
    raw_description \in
        {"Transfer : Savings", "Transfer : Checking", "TRANSFER TO SAVINGS"}

\* the script selects the rows of every import
AllImports == 0

\* the first query: the unlinked transfer rows of the import, in rowid order
UnlinkedTransfers(d, import_id) ==
    SelectIdx(d.transactions,
        {i \in DOMAIN d.transactions :
            /\ import_id = AllImports \/ d.transactions[i].import_id = import_id
            /\ LikeTransfer(d.transactions[i].raw_description)
            /\ d.transactions[i].id \notin Linked(d)}, 1)

\* the query of the loop: another account, the opposite amount, within 5
\* days, a transfer description, unlinked; ordered by distance in days (the
\* code takes the first row, LIMIT 1)
BackfillCandidates(d, row) ==
    SortByDistance(
        SelectIdx(d.transactions,
            {i \in DOMAIN d.transactions :
                /\ d.transactions[i].account_id # row.account_id
                /\ AmountOpposite(d.transactions[i].amount, row.amount)
                /\ Abs(d.transactions[i].date - row.date) <= 5
                /\ LikeTransfer(d.transactions[i].raw_description)
                /\ d.transactions[i].id \notin Linked(d)}, 1),
        row.date, 0)

\* from_id, to_id = (txn_id, match[0]) if amount < 0 else (match[0], txn_id)
BackfillTransfer(row, match, match_method) ==
    IF row.amount < 0
    THEN Transfer(row.id, match.id, "internal-transfer", match_method)
    ELSE Transfer(match.id, row.id, "internal-transfer", match_method)

MaxBackfill == 3

\* transfers of 100.00 between a1 and a2 as a budget app exports them, a
\* second outflow a day later, a card payment, a credit a cent higher and a
\* credit outside the window
BackfillRows ==
    <<RawTransaction("a1", 5, -10000, "Transfer : Savings", None),
      RawTransaction("a2", 5, 10000, "Transfer : Checking", None),
      RawTransaction("a1", 6, -10000, "Transfer : Savings", None),
      RawTransaction("a2", 5, 10000, "CARD PAYMENT", None),
      RawTransaction("a2", 5, 10001, "TRANSFER TO SAVINGS", None),
      RawTransaction("a2", 12, 10000, "Transfer : Checking", None)>>

\* the database two imports leave behind: the rows at the positions keep,
\* row i imported by imp[i]
BackfillLedger(keep, imp) ==
    LET rows == SelectIdx(BackfillRows, keep, 1)
        imps == SelectIdx(imp, keep, 1)
    IN  insert_transactions_batch(
            [EmptyDb EXCEPT !.imports = <<Import(1, "h0"), Import(2, "h1")>>],
            WithIds(EmptyDb,
                [i \in DOMAIN rows |->
                    Transaction(rows[i], imps[i], "budget_app", "pending")]))

InitBackfill ==
    /\ \E keep \in SUBSET DOMAIN BackfillRows :
       \E imp \in [DOMAIN BackfillRows -> {1, 2}] :
           /\ Cardinality(keep) \in 2..MaxBackfill
           /\ db = BackfillLedger(keep, imp)
    /\ op = Idle
    /\ last = [kind |-> "none"]

\* cli.py 695-705: the rows of the import are selected
BackfillStart ==
    /\ op = Idle
    /\ \E import_id \in {1, 2} :
           op' = [kind |-> "backfill",
                  match_method |-> "budget_app_import_backfill",
                  rows |-> UnlinkedTransfers(db, import_id), linked |-> 0]
    /\ UNCHANGED <<db, last>>

\* scripts/backfill_transfers.py 9-17: the rows of every import
BackfillScriptStart ==
    /\ op = Idle
    /\ op' = [kind |-> "backfill", match_method |-> "backfill_script",
              rows |-> UnlinkedTransfers(db, AllImports), linked |-> 0]
    /\ UNCHANGED <<db, last>>

\* one iteration of the loop
BackfillRow ==
    /\ op.kind = "backfill"
    /\ op.rows # <<>>
    /\ LET row == Head(op.rows)
           candidates == BackfillCandidates(db, row)
       IN  IF candidates = <<>>
           THEN /\ db' = db
                /\ op' = [op EXCEPT !.rows = Tail(@)]
           ELSE /\ db' = insert_transfer(db,
                             BackfillTransfer(row, candidates[1], op.match_method))
                /\ op' = [op EXCEPT !.rows = Tail(@), !.linked = @ + 1]
    /\ UNCHANGED last

\* return linked
BackfillReturn ==
    /\ op.kind = "backfill"
    /\ op.rows = <<>>
    /\ op' = Idle
    /\ last' = [kind |-> "backfill", linked |-> op.linked]
    /\ UNCHANGED db

NextBackfill ==
    \/ BackfillStart
    \/ BackfillScriptStart
    \/ BackfillRow
    \/ BackfillReturn

SpecBackfill == InitBackfill /\ [][NextBackfill]_vars

\* the transfer rows that name the transaction
TransfersOf(d, txn_id) ==
    {i \in DOMAIN d.transfers :
        \/ d.transfers[i].from_transaction_id = txn_id
        \/ d.transfers[i].to_transaction_id = txn_id}

\* C28 as stated: after _backfill_transfer_links has run, every transaction
\* occurs in at most one transfer row
C28_AsStated ==
    (op = Idle /\ last.kind = "backfill") =>
        \A i \in DOMAIN db.transactions :
            Cardinality(TransfersOf(db, db.transactions[i].id)) <= 1

\* what the loop does check: the counterpart it links a row to was in no
\* transfer when the row's turn came, and the row itself was in none when
\* the pass began
C28_CounterpartWasUnlinked ==
    [][(op.kind = "backfill" /\ db' # db) =>
           LET row == Head(op.rows)
               xfer == db'.transfers[Len(db'.transfers)]
               other == IF xfer.from_transaction_id = row.id
                        THEN xfer.to_transaction_id
                        ELSE xfer.from_transaction_id
           IN  /\ Len(db'.transfers) = Len(db.transfers) + 1
               /\ row.id \in {xfer.from_transaction_id, xfer.to_transaction_id}
               /\ other # row.id
               /\ other \notin Linked(db)]_vars

\* a pass has linked a row whose counterpart role was taken earlier in it
C28_LinkedTwice ==
    /\ op = Idle
    /\ last.kind = "backfill"
    /\ last.linked = 2
    /\ \E i \in DOMAIN db.transactions :
           Cardinality(TransfersOf(db, db.transactions[i].id)) = 2

(***************************************************************************)
(* Claims about imports that ended in error (SpecImport)                   *)
(***************************************************************************)
\* the imports table holds a row of status error with the hash of the file
Errored(d, file) ==
    \E i \in DOMAIN d.imports :
        /\ d.imports[i].file_hash = file.file_hash
        /\ d.imports[i].status = "error"

\* C29 as stated: once process_file has ended in status error for a file,
\* the next call on the same bytes returns duplicate and adds no transaction
C29_AsStated ==
    [][(op = Idle /\ last.kind = "import" /\ last.status = "error") =>
          /\ op' # Idle => op'.file.file_hash # last.file.file_hash
          /\ (op' = Idle /\ last'.kind = "import"
                 /\ last'.file.file_hash = last.file.file_hash) =>
                /\ last'.status = "duplicate"
                /\ db' = db]_vars

\* C29, amended to the errors that are raised after the import row was
\* written: the row of an import keeps its file hash, and keeps the status
\* error once it has it; a call that ends in error for any reason other than
\* the extension leaves a row of status error with the hash of the file; and
\* a call on bytes with such a row goes no further than the hash check,
\* changes nothing and, under a supported extension, returns duplicate
C29_ErroredImportStaysDuplicate ==
    [][/\ \A i \in DOMAIN db.imports :
              /\ i \in DOMAIN db'.imports
              /\ db'.imports[i].file_hash = db.imports[i].file_hash
              /\ db.imports[i].status = "error" =>
                     db'.imports[i].status = "error"
       /\ (op.kind = "import" /\ op' = Idle /\ last'.status = "error") =>
              Errored(db', op.file)
       /\ op = Idle =>
              /\ op' # Idle => ~Errored(db, op'.file)
              /\ (op' = Idle /\ last'.kind = "import" /\ Errored(db, last'.file)) =>
                    /\ db' = db
                    /\ last'.new_count = 0 /\ last'.categorized_count = 0
                    /\ Lower(last'.file.suffix) \in SUPPORTED_EXTENSIONS =>
                           /\ last'.status = "duplicate"
                           /\ last'.trace = <<"check_file_duplicate">>]_vars

\* a statement whose categorization raised after its rows were inserted is
\* dropped again: the call returns duplicate, the import is still in error
\* and holds the transactions of the first call
C29_Witness ==
    /\ op = Idle
    /\ last.kind = "import" /\ last.status = "duplicate"
    /\ \E i \in Range(db.imports) :
           /\ i.file_hash = last.file.file_hash
           /\ i.status = "error" /\ i.error_message = "categorize"
           /\ \E t \in Range(db.transactions) : t.import_id = i.id

(***************************************************************************)
(* Specification of the split-sum tier inside process_batch: a budget-app  *)
(* import has left split rows on one account and date, and a batch of bank *)
(* rows with external ids is processed against them.                       *)
(***************************************************************************)
MaxSplits == 4

MaxSplitBatch == 2

\* the split rows of the budget app: two pairs that sum to 100.00, a pair that
\* sums to 40.01, and a row of another merchant
SplitSeeds ==
    <<RawTransaction("a1", 1, -6000, "Amazon", None),
      RawTransaction("a1", 1, -4000, "Amazon", None),
      RawTransaction("a1", 1, -7000, "Amazon", None),
      RawTransaction("a1", 1, -3000, "Amazon", None),
      RawTransaction("a1", 1, -2000, "Amazon", None),
      RawTransaction("a1", 1, -2001, "Amazon", None),
      RawTransaction("a1", 1, -6000, "Costco", None)>>

\* the charges of the bank statement
SplitIncoming ==
    {RawTransaction("a1", 1, -10000, "AMAZON.COM*ORDER1", "e1"),
     RawTransaction("a1", 1, -10000, "AMAZON.COM*ORDER2", "e2"),
     RawTransaction("a1", 1, -4000, "AMAZON.COM*ORDER1", "e3")}

InitSplit ==
    /\ \E keep \in SUBSET DOMAIN SplitSeeds :
           /\ Cardinality(keep) \in 2..MaxSplits
           /\ db = process_batch(
                       [EmptyDb EXCEPT
                            !.imports = <<Import(1, "h0"), Import(2, "h1")>>],
                       SelectIdx(SplitSeeds, keep, 1), 1, "budget_app").db
    /\ op = Idle
    /\ last = [kind |-> "none"]

\* the loop takes the next row of the statement
ProcessSplitRow ==
    \E raw \in SplitIncoming :
        /\ op.kind = "batch"
        /\ op.st.n_rows < MaxSplitBatch
        /\ op' = [op EXCEPT !.st = BatchRow(db, op.st, raw, 2, "bank")]
        /\ UNCHANGED <<db, last>>

NextSplit == BeginBatch \/ ProcessSplitRow \/ EndBatch

SpecSplit == InitSplit /\ [][NextSplit]_vars

\* the row gets as far as the split-sum tier: no earlier check of the loop
\* and no earlier tier of deduplicate has an answer for it
ReachesSplitSum(d, st, raw) ==
    /\ ~(/\ Truthy(raw.external_id)
         /\ <<raw.account_id, raw.external_id>> \in st.seen_external_ids)
    /\ ~(/\ ~Truthy(raw.external_id)
         /\ compute_import_hash(raw.account_id, raw.date, raw.amount,
                                raw.raw_description) \in st.seen_import_hashes)
    /\ check_external_id(d, raw.account_id, raw.external_id) = NoRow
    /\ check_import_hash(d,
           compute_import_hash(raw.account_id, raw.date, raw.amount,
                               raw.raw_description), raw.external_id) = NoRow
    /\ check_cross_format_duplicate(d,
           compute_dedup_key(raw.account_id, raw.date, raw.amount),
           Truthy(raw.external_id)) = <<>>

\* the sets of existing rows the claim speaks of: at least two rows of the
\* opposite source on the account and date, related descriptions, none
\* consumed, summing to the amount within one cent
UnconsumedSplitSets(st, raw) ==
    {S \in SUBSET {t.id : t \in Range(db.transactions)} :
        /\ SplitSumJustified(raw, S)
        /\ S \cap st.split_sum_consumed = {}}

\* the step of the loop for one row
SplitRowStep ==
    /\ op.kind = "batch"
    /\ op'.kind = "batch"
    /\ op'.st.n_rows = op.st.n_rows + 1

RejectedAtSplitSum(st) ==
    st.decision.status = "duplicate" /\ st.decision.tier = "split_sum"

\* C30 as stated: a row that reaches the split-sum tier is rejected there
\* whenever some unconsumed set of at least two existing opposite-source rows
\* of its account and date with related descriptions sums to its amount
\* within one cent
C30_AsStated ==
    [][SplitRowStep =>
          LET raw == op'.st.decision.raw
          IN  (/\ ReachesSplitSum(db, op.st, raw)
               /\ UnconsumedSplitSets(op.st, raw) # {}) =>
                  RejectedAtSplitSum(op'.st)]_vars

\* what decides: the row is rejected exactly when the first subset that
\* _find_subset_sum finds among the related rows has no consumed row
C30_FirstSubsetDecides ==
    [][SplitRowStep =>
          LET raw == op'.st.decision.raw
              first == {t.id : t \in Range(
                           check_split_sum_duplicate(db, raw.account_id,
                               raw.date, raw.amount, raw.raw_description,
                               Truthy(raw.external_id)))}
          IN  ReachesSplitSum(db, op.st, raw) =>
                  (RejectedAtSplitSum(op'.st) <=>
                       /\ first # {}
                       /\ first \cap op.st.split_sum_consumed = {})]_vars

\* the second charge of 100.00 was inserted although two unconsumed split
\* rows sum to it
C30_SecondChargeInserted ==
    /\ op.kind = "batch"
    /\ op.st.n_rows = 2
    /\ Cardinality(op.st.split_sum_consumed) = 2
    /\ op.st.decision.status = "new"
    /\ UnconsumedSplitSets(op.st, op.st.decision.raw) # {}

====
